---------------------------- MODULE Spec2Model ----------------------------
(***************************************************************************)
(* A model of the accessibility-rating backend: the Business table and the *)
(* map endpoint business_locations (apps/businesses/views.py), served by   *)
(* one worker that takes a request, runs the view and sends the response   *)
(* (Spec) or by workers side by side (SpecConcurrent); the favourites and  *)
(* profiles of apps/accounts (SpecToggle, SpecFavorites, SpecProfiles);    *)
(* and the REST endpoints of BusinessViewSet (SpecApi).                    *)
(*                                                                         *)
(* Conventions.                                                            *)
(*  - Python's None is the empty tuple <<>> and a present value v is the   *)
(*    one-element tuple <<v>> (Some(v)).                                   *)
(*  - A Python str that the code converts or scans (a query parameter, a   *)
(*    text column) is a tuple of one-character strings, so that int(),     *)
(*    float(), strip() and icontains are computed, not assumed.            *)
(*  - A Python float is a record [k, v]: k = "fin" with v the value in     *)
(*    units of 1/FScale, k = "inf" with v the sign, or k = "nan".          *)
(*    The math module's functions are computed in that fixed point.        *)
(***************************************************************************)
EXTENDS Integers, Sequences, FiniteSets, TLC

VARIABLES
    businesses,   \* the Business table, in insertion order
    nextId,       \* the next value of Business.id
    request,      \* the map request the single worker holds, or None
    response,     \* its response, or None
    invocations,  \* the request each concurrent worker is serving
    favorites,    \* the UserFavorite table
    nextFavoriteId, \* the next value of UserFavorite.id
    profiles,     \* the UserProfile table, in insertion order
    search_history \* the UserSearchHistory table, in insertion order

vars == <<businesses, nextId, request, response, invocations,
          favorites, nextFavoriteId, profiles, search_history>>

\* The tables of the accounts app.
accounts == <<favorites, nextFavoriteId, profiles, search_history>>

\* What the single worker of the map endpoint does not touch.
besideWorker == <<invocations, favorites, nextFavoriteId, profiles, search_history>>

---------------------------------------------------------------------------
(* Python values *)

None == <<>>
Some(v) == <<v>>
IsNone(x) == x = <<>>
Val(x) == x[1]

Abs(n) == IF n < 0 THEN -n ELSE n
Sgn(n) == IF n < 0 THEN -1 ELSE 1

---------------------------------------------------------------------------
(* str: characters, strip(), lower(), substring search *)

Digits == {"0", "1", "2", "3", "4", "5", "6", "7", "8", "9"}
Whitespace == {" ", "\t", "\n"}

DigitVal(c) ==
    CASE c = "0" -> 0 [] c = "1" -> 1 [] c = "2" -> 2 [] c = "3" -> 3
      [] c = "4" -> 4 [] c = "5" -> 5 [] c = "6" -> 6 [] c = "7" -> 7
      [] c = "8" -> 8 [] c = "9" -> 9

\* str.lower() on one character (ASCII letters of the model's alphabet).
LowerChar(c) ==
    CASE c = "A" -> "a" [] c = "B" -> "b" [] c = "C" -> "c" [] c = "F" -> "f"
      [] c = "I" -> "i" [] c = "N" -> "n" [] c = "O" -> "o" [] c = "P" -> "p"
      [] c = "T" -> "t" [] c = "Y" -> "y" [] c = "Z" -> "z"
      [] OTHER -> c

Lower(s) == [i \in 1..Len(s) |-> LowerChar(s[i])]

RECURSIVE LStrip(_)
LStrip(s) ==
    IF s # <<>> /\ Head(s) \in Whitespace THEN LStrip(Tail(s)) ELSE s

RECURSIVE RStrip(_)
RStrip(s) ==
    IF s # <<>> /\ s[Len(s)] \in Whitespace
    THEN RStrip(SubSeq(s, 1, Len(s) - 1))
    ELSE s

\* str.strip()
Strip(s) == RStrip(LStrip(s))

\* needle in haystack (Python `in` on str; SQL LIKE '%needle%')
Contains(hay, needle) ==
    \E i \in 0..(Len(hay) - Len(needle)) :
        SubSeq(hay, i + 1, i + Len(needle)) = needle

\* Django's icontains lookup: case-insensitive containment.
IContains(column, term) == Contains(Lower(column), Lower(term))

---------------------------------------------------------------------------
(* int() *)

RECURSIVE DigitsValue(_)
DigitsValue(s) ==
    IF s = <<>> THEN 0
    ELSE 10 * DigitsValue(SubSeq(s, 1, Len(s) - 1)) + DigitVal(s[Len(s)])

AllDigits(s) == s # <<>> /\ \A i \in 1..Len(s) : s[i] \in Digits

HasSign(s) == s # <<>> /\ Head(s) \in {"+", "-"}
Unsigned(s) == IF HasSign(s) THEN Tail(s) ELSE s
SignOf(s) == IF s # <<>> /\ Head(s) = "-" THEN -1 ELSE 1

IntOfDigits(sign, u) ==
    IF AllDigits(u)
    THEN [ok |-> TRUE, v |-> sign * DigitsValue(u)]
    ELSE [ok |-> FALSE, v |-> 0]

IntOfStripped(t) == IntOfDigits(SignOf(t), Unsigned(t))

\* int(s): surrounding whitespace and one sign are accepted, then decimal
\* digits only; anything else raises ValueError (ok = FALSE).
IntParse(s) == IntOfStripped(Strip(s))

---------------------------------------------------------------------------
(* float *)

FScale == 10000

Fin(n) == [k |-> "fin", v |-> n]
Inf(sign) == [k |-> "inf", v |-> sign]
NaN == [k |-> "nan", v |-> 0]

IsFin(x) == x.k = "fin"
IsInf(x) == x.k = "inf"
IsNaN(x) == x.k = "nan"

\* x <= y on floats: every comparison with nan is False.
FloatLE(x, y) ==
    CASE IsNaN(x) \/ IsNaN(y) -> FALSE
      [] IsFin(x) /\ IsFin(y) -> x.v <= y.v
      [] IsInf(x) /\ IsInf(y) -> x.v <= y.v
      [] IsInf(x) -> x.v < 0
      [] OTHER -> y.v > 0

IndexOf(s, c) ==
    IF \E i \in 1..Len(s) : s[i] = c
    THEN CHOOSE i \in 1..Len(s) : s[i] = c /\ \A j \in 1..(i - 1) : s[j] # c
    ELSE 0

\* The first four digits of a fraction, as a number of 1/FScale.
FracValue(s) == DigitsValue(SubSeq(s \o <<"0", "0", "0", "0">>, 1, 4))

AllDigitsOrEmpty(s) == \A i \in 1..Len(s) : s[i] \in Digits

FloatOfParts(sign, ip, fp) ==
    IF AllDigitsOrEmpty(ip) /\ AllDigitsOrEmpty(fp) /\ ip \o fp # <<>>
    THEN [ok |-> TRUE,
          f |-> Fin(sign * (DigitsValue(ip) * FScale + FracValue(fp)))]
    ELSE [ok |-> FALSE, f |-> NaN]

FloatOfDecimal(sign, u, dot) ==
    IF dot = 0
    THEN FloatOfParts(sign, u, <<>>)
    ELSE FloatOfParts(sign, SubSeq(u, 1, dot - 1), SubSeq(u, dot + 1, Len(u)))

FloatOfUnsigned(sign, u, w) ==
    CASE w \in {<<"i", "n", "f">>,
                <<"i", "n", "f", "i", "n", "i", "t", "y">>}
           -> [ok |-> TRUE, f |-> Inf(sign)]
      [] w = <<"n", "a", "n">> -> [ok |-> TRUE, f |-> NaN]
      [] OTHER -> FloatOfDecimal(sign, u, IndexOf(u, "."))

FloatOfStripped(t) == FloatOfUnsigned(SignOf(t), Unsigned(t), Lower(Unsigned(t)))

\* float(s): surrounding whitespace and one sign are accepted; then "inf",
\* "infinity" or "nan" in any case, or digits with at most one point and at
\* least one digit. Anything else raises ValueError (ok = FALSE).
FloatParse(s) == FloatOfStripped(Strip(s))

---------------------------------------------------------------------------
(* math: radians, sin, cos, sqrt, asin on fixed-point numbers.  A result   *)
(* is [ok |-> TRUE, f |-> float] or, for "math domain error",              *)
(* [ok |-> FALSE, exc |-> "ValueError"].                                   *)

Pi == 31416
HalfPi == 15708
TwoPi == 62832

Ok(x) == [ok |-> TRUE, f |-> x]
ValueError == [ok |-> FALSE, exc |-> "ValueError"]

MulAbs(m, n) == (m \div FScale) * n + ((m % FScale) * n) \div FScale

\* a * b / FScale without leaving 32 bits, for |b| <= FScale.
MulFix(a, b) == Sgn(a) * Sgn(b) * MulAbs(Abs(a), Abs(b))

\* n / d rounded toward zero, as the sign and the magnitude.
DivTrunc(n, d) == Sgn(n) * (Abs(n) \div d)

\* math.radians(x) = x * pi / 180; inf and nan pass through.
Radians(x) == IF IsFin(x) THEN Fin(DivTrunc(MulFix(x.v, Pi), 180)) ELSE x

Clamp(s, lo, hi) == IF s > hi THEN hi ELSE IF s < lo THEN lo ELSE s

\* One step of Horner's rule: 1 - m2 * h / k.
HornerStep(m2, h, k) == FScale - ((m2 * h) \div FScale) \div k

\* sin m = m (1 - m2/6 (1 - m2/20 (1 - m2/42 (1 - m2/72)))), m2 = m * m:
\* the Taylor polynomial of degree 9.
SinHorner(m, m2) ==
    (m * HornerStep(m2, HornerStep(m2, HornerStep(m2,
              HornerStep(m2, FScale, 72), 42), 20), 6)) \div FScale

\* sin on [0, pi/2].
SinPoly(m) == Clamp(SinHorner(m, (m * m) \div FScale), 0, FScale)

\* An angle in [0, 2 pi) brought to (-pi, pi], and one in [0, pi] to
\* [0, pi/2] by sin(pi - m) = sin m.
Wrap(t) == IF t > Pi THEN t - TwoPi ELSE t
Fold(m) == IF m > HalfPi THEN Pi - m ELSE m

SinWrapped(u) == Sgn(u) * SinPoly(Fold(Abs(u)))

\* sin and cos of a finite angle (an integer number of 1/FScale radians).
SinFix(r) == SinWrapped(Wrap(r % TwoPi))
CosFix(r) == SinFix(r + HalfPi)

\* math.sin: nan for nan, "math domain error" for an infinity.
Sin(x) ==
    CASE IsNaN(x) -> Ok(NaN)
      [] IsInf(x) -> ValueError
      [] OTHER -> Ok(Fin(SinFix(x.v)))

\* math.cos, likewise.
Cos(x) ==
    CASE IsNaN(x) -> Ok(NaN)
      [] IsInf(x) -> ValueError
      [] OTHER -> Ok(Fin(CosFix(x.v)))

\* The largest root in lo..hi with root * root <= n.
RECURSIVE IsqrtSearch(_, _, _)
IsqrtSearch(n, lo, hi) ==
    IF lo >= hi THEN lo
    ELSE IF ((lo + hi + 1) \div 2) * ((lo + hi + 1) \div 2) <= n
         THEN IsqrtSearch(n, (lo + hi + 1) \div 2, hi)
         ELSE IsqrtSearch(n, lo, ((lo + hi + 1) \div 2) - 1)

\* The largest angle in lo..hi whose sine is at most y.
RECURSIVE AsinSearch(_, _, _)
AsinSearch(y, lo, hi) ==
    IF lo >= hi THEN lo
    ELSE IF SinPoly((lo + hi + 1) \div 2) <= y
         THEN AsinSearch(y, (lo + hi + 1) \div 2, hi)
         ELSE AsinSearch(y, lo, ((lo + hi + 1) \div 2) - 1)

\* x - y and x / 2 on floats.
FloatSub(x, y) ==
    CASE IsNaN(x) \/ IsNaN(y) -> NaN
      [] IsInf(x) /\ IsInf(y) -> IF x.v = y.v THEN NaN ELSE x
      [] IsInf(x) -> x
      [] IsInf(y) -> Inf(-y.v)
      [] OTHER -> Fin(x.v - y.v)

FloatHalf(x) == IF IsFin(x) THEN Fin(DivTrunc(x.v, 2)) ELSE x

RoundedUnits(q, r, step) ==
    IF (2 * r > step) \/ (2 * r = step /\ q % 2 = 1) THEN q + 1 ELSE q

RoundToStep(n, step) ==
    Sgn(n) * step * RoundedUnits(Abs(n) \div step, Abs(n) % step, step)

\* round(x, 2): to the nearest 1/100, ties to even; inf and nan unchanged.
Round2(x) == IF IsFin(x) THEN Fin(RoundToStep(x.v, FScale \div 100)) ELSE x

---------------------------------------------------------------------------
(* haversine_distance *)

EarthRadiusMiles == 3956

Square(x) == x * x

\* a = sin(dlat/2)**2 + cos(lat1) * cos(lat2) * sin(dlon/2)**2, in units of
\* 1/FScale^2, from the four sines and cosines in units of 1/FScale.
HaversineA(sin_dlat, cos_lat1, cos_lat2, sin_dlon) ==
    Square(sin_dlat) + MulFix(Square(sin_dlon), MulFix(cos_lat1, cos_lat2))

\* Variant: the angle asin(root) taken once.
HaversineOfRootOnce(root) ==
    IF root > FScale
    THEN ValueError
    ELSE Ok(Fin(AsinSearch(root, 0, HalfPi) * EarthRadiusMiles))

\* c = 2 * asin(root); return c * r.  math.asin raises for an argument
\* above 1.
HaversineOfRoot(root) ==
    IF root > FScale
    THEN ValueError
    ELSE Ok(Fin(2 * AsinSearch(root, 0, HalfPi) * EarthRadiusMiles))

\* math.sqrt(a) raises for a < 0.
HaversineOfA(a) ==
    IF a < 0 THEN ValueError ELSE HaversineOfRoot(IsqrtSearch(a, 0, 2 * FScale))

\* calls: the results of sin(dlat/2), cos(lat1), cos(lat2), sin(dlon/2), in
\* the order the formula takes them.  Any of them raising ends the call; a
\* nan among them makes a, c and the distance nan.
HaversineOfCalls(calls) ==
    CASE \E i \in 1..4 : ~calls[i].ok -> ValueError
      [] \E i \in 1..4 : IsNaN(calls[i].f) -> Ok(NaN)
      [] OTHER -> HaversineOfA(HaversineA(calls[1].f.v, calls[2].f.v,
                                          calls[3].f.v, calls[4].f.v))

\* The formula on angles in radians.
HaversineOfRadians(lat1, lon1, lat2, lon2) ==
    HaversineOfCalls(<<Sin(FloatHalf(FloatSub(lat2, lat1))), Cos(lat1),
                       Cos(lat2), Sin(FloatHalf(FloatSub(lon2, lon1)))>>)

\* The arguments are floats in degrees.
haversine_distance(lat1, lon1, lat2, lon2) ==
    HaversineOfRadians(Radians(lat1), Radians(lon1), Radians(lat2), Radians(lon2))

---------------------------------------------------------------------------
(* The Business table (apps/businesses/models.py) *)

\* Python truthiness of a str (or None) and of a Decimal (or None).
TruthyStr(x) == ~IsNone(x) /\ Val(x) # <<>>
TruthyName(x) == ~IsNone(x) /\ Val(x) # ""
TruthyDecimal(x) == ~IsNone(x) /\ Val(x) # 0

\* float(Decimal)
DecimalToFloat(x) == Fin(Val(x))

\* Meta.ordering = ['-created_at']: a queryset yields the newest row first.
\* The table is kept in insertion order.
Reverse(s) == [i \in 1..Len(s) |-> s[Len(s) + 1 - i]]

\* The columns a stored row has, given the values to save and the id.
BusinessRow(id, f) ==
    [id |-> id,
     name |-> f.name,
     description |-> f.description,
     address |-> f.address,
     city |-> f.city,
     business_type |-> f.business_type,
     specialisation |-> f.specialisation,
     accessibility_level |-> f.accessibility_level,
     accessibility_features |-> f.accessibility_features,
     latitude |-> f.latitude,
     longitude |-> f.longitude,
     owner |-> f.owner]

\* latitude and longitude are declared without null=True: a save with either
\* unset fails with IntegrityError and stores nothing.
NotNullSatisfied(f) == ~IsNone(f.latitude) /\ ~IsNone(f.longitude)

---------------------------------------------------------------------------
(* business_locations *)

\* Variant: the handlers written as `except TypeError`.
CaughtTypeErrorOnly(exc) == exc \in {"TypeError"}

\* except (ValueError, TypeError)
Caught(exc) == exc \in {"ValueError", "TypeError"}

Passed(qs) == [exc |-> None, qs |-> qs]
Raised(exc) == [exc |-> Some(exc), qs |-> <<>>]

\* Business.objects.filter(latitude__isnull=False, longitude__isnull=False)
HasCoordinates(b) == ~IsNone(b.latitude) /\ ~IsNone(b.longitude)

\* Variant: the range test left out.
RatingInRangeAny(v) == TRUE

\* if 1 <= rating <= 5
RatingInRange(v) == 1 <= v /\ v <= 5

\* Variant: a lower bound that lets unrated rows through.
LevelGteOrUnrated(b, v) ==
    IsNone(b.accessibility_level) \/ Val(b.accessibility_level) >= v

\* accessibility_level__gte / __lte: a NULL level matches neither.
LevelGte(b, v) == ~IsNone(b.accessibility_level) /\ Val(b.accessibility_level) >= v
LevelLte(b, v) == ~IsNone(b.accessibility_level) /\ Val(b.accessibility_level) <= v

\* The body of the min_rating try block, given what int() returned.
MinRatingTry(qs, p) ==
    CASE ~p.ok /\ Caught("ValueError") -> Passed(qs)
      [] ~p.ok -> Raised("ValueError")
      [] RatingInRange(p.v) -> Passed(SelectSeq(qs, LAMBDA b : LevelGte(b, p.v)))
      [] OTHER -> Passed(qs)

\* if min_rating: try: ... except (ValueError, TypeError): pass
MinRatingStage(qs, raw) ==
    IF TruthyStr(raw) THEN MinRatingTry(qs, IntParse(Val(raw))) ELSE Passed(qs)

\* Variant: a max_rating that does not parse empties the queryset.
MaxRatingTryNone(qs, p) ==
    CASE ~p.ok -> Passed(<<>>)
      [] RatingInRange(p.v) -> Passed(SelectSeq(qs, LAMBDA b : LevelLte(b, p.v)))
      [] OTHER -> Passed(qs)

\* The body of the max_rating try block.
MaxRatingTry(qs, p) ==
    CASE ~p.ok /\ Caught("ValueError") -> Passed(qs)
      [] ~p.ok -> Raised("ValueError")
      [] RatingInRange(p.v) -> Passed(SelectSeq(qs, LAMBDA b : LevelLte(b, p.v)))
      [] OTHER -> Passed(qs)

\* if max_rating: try: ... except (ValueError, TypeError): pass
MaxRatingStage(qs, raw) ==
    IF TruthyStr(raw) THEN MaxRatingTry(qs, IntParse(Val(raw))) ELSE Passed(qs)

\* Variant: 'all' taken for a business type like any other.
BusinessTypeActiveNoAll(raw) == TruthyName(raw)

\* if business_type and business_type != 'all'
BusinessTypeActive(raw) == TruthyName(raw) /\ Val(raw) # "all"

BusinessTypeStage(qs, raw) ==
    IF BusinessTypeActive(raw)
    THEN SelectSeq(qs, LAMBDA b : b.business_type = Val(raw))
    ELSE qs

\* Variant: the term used as given, without strip().
SearchTermUnstripped(raw) == IF IsNone(raw) THEN <<>> ELSE Val(raw)

\* request.GET.get('search', '').strip()
SearchTerm(raw) == IF IsNone(raw) THEN <<>> ELSE Strip(Val(raw))

\* Q(name__icontains) | Q(description__icontains) | Q(address__icontains)
\* | Q(city__icontains)
SearchMatches(b, term) ==
    \/ IContains(b.name, term)
    \/ IContains(b.description, term)
    \/ IContains(b.address, term)
    \/ IContains(b.city, term)

\* if search: businesses = businesses.filter(...)
SearchFilter(qs, search) ==
    IF search # <<>>
    THEN SelectSeq(qs, LAMBDA b : SearchMatches(b, search))
    ELSE qs

SearchStage(qs, raw) == SearchFilter(qs, SearchTerm(raw))

\* Variant: a coordinate that is zero written as null.
MarkerNullsZero(b) ==
    [id |-> b.id,
     name |-> b.name,
     latitude |-> IF TruthyDecimal(b.latitude)
                  THEN DecimalToFloat(b.latitude) ELSE None,
     longitude |-> IF TruthyDecimal(b.longitude)
                   THEN DecimalToFloat(b.longitude) ELSE None,
     address |-> b.address,
     business_type |-> b.business_type,
     accessibility_level |-> b.accessibility_level]

\* The output record without and with a distance.
Marker(b) ==
    [id |-> b.id,
     name |-> b.name,
     latitude |-> DecimalToFloat(b.latitude),
     longitude |-> DecimalToFloat(b.longitude),
     address |-> b.address,
     business_type |-> b.business_type,
     accessibility_level |-> b.accessibility_level]

MarkerWithDistance(b, distance) ==
    [id |-> b.id,
     name |-> b.name,
     latitude |-> DecimalToFloat(b.latitude),
     longitude |-> DecimalToFloat(b.longitude),
     address |-> b.address,
     business_type |-> b.business_type,
     accessibility_level |-> b.accessibility_level,
     distance |-> Round2(distance)]

\* [ {...} for b in businesses ]
PlainList(qs) == [i \in 1..Len(qs) |-> Marker(qs[i])]

\* if business.latitude and business.longitude
LoopTakes(b) == TruthyDecimal(b.latitude) /\ TruthyDecimal(b.longitude)

BusinessDistance(center_lat, center_lng, b) ==
    haversine_distance(center_lat, center_lng,
                       DecimalToFloat(b.latitude), DecimalToFloat(b.longitude))

\* Variant: the comparison turned round.
WithinRadiusFlipped(distance, max_distance) == FloatLE(max_distance, distance)

\* if distance <= max_distance
WithinRadius(distance, max_distance) == FloatLE(distance, max_distance)

Appended(list) == [exc |-> None, list |-> list]
LoopRaised(exc) == [exc |-> Some(exc), list |-> <<>>]

\* One pass of the for loop on business b, d being what haversine_distance
\* gives for it and rest what the later passes give.
LoopStep(b, d, max_distance, rest) ==
    CASE ~LoopTakes(b) -> rest
      [] ~d.ok -> LoopRaised(d.exc)
      [] rest.exc # None -> rest
      [] WithinRadius(d.f, max_distance) ->
           Appended(<<MarkerWithDistance(b, d.f)>> \o rest.list)
      [] OTHER -> rest

\* The for loop of the try block: the markers appended, or the exception
\* haversine_distance raised on the way.
RECURSIVE DistanceLoop(_, _, _, _)
DistanceLoop(qs, center_lat, center_lng, max_distance) ==
    IF qs = <<>> THEN Appended(<<>>)
    ELSE LoopStep(Head(qs),
                  BusinessDistance(center_lat, center_lng, Head(qs)),
                  max_distance,
                  DistanceLoop(Tail(qs), center_lat, center_lng, max_distance))

\* if lat and lng and radius
DistanceRequested(GET) ==
    TruthyStr(GET.lat) /\ TruthyStr(GET.lng) /\ TruthyStr(GET.radius)

\* The try block, given what the three float() invocations returned.
DistanceParsed(qs, center_lat, center_lng, max_distance) ==
    IF center_lat.ok /\ center_lng.ok /\ max_distance.ok
    THEN DistanceLoop(qs, center_lat.f, center_lng.f, max_distance.f)
    ELSE LoopRaised("ValueError")

DistanceTry(qs, GET) ==
    DistanceParsed(qs, FloatParse(Val(GET.lat)), FloatParse(Val(GET.lng)),
                   FloatParse(Val(GET.radius)))

\* Variant: a handler that leaves the list empty.
DistanceExceptEmpty(qs, t) ==
    CASE t.exc = None -> t
      [] Caught(Val(t.exc)) -> [exc |-> None, list |-> <<>>]
      [] OTHER -> t

\* except (ValueError, TypeError): the list without distances.
DistanceExcept(qs, t) ==
    CASE t.exc = None -> t
      [] Caught(Val(t.exc)) -> Appended(PlainList(qs))
      [] OTHER -> t

\* The distance block: [exc, list], exc being an exception no handler took.
DistanceStage(qs, GET) ==
    IF DistanceRequested(GET)
    THEN DistanceExcept(qs, DistanceTry(qs, GET))
    ELSE Appended(PlainList(qs))

\* JsonResponse(filtered_businesses, safe=False); an exception that leaves
\* the view is answered by the framework with status 500.
JsonResponse(list) == [status |-> 200, body |-> list]
ServerError == [status |-> 500, body |-> <<>>]

\* A stage applied to what the stages before it gave.
Then(r, qs) == IF r.exc # None THEN r ELSE Passed(qs)
ThenStage(r, next) == IF r.exc # None THEN r ELSE next

\* The rows the queryset holds before the distance block: [exc, qs].
AfterCoordinates(table) == Passed(SelectSeq(Reverse(table), HasCoordinates))
AfterMinRating(table, GET) ==
    MinRatingStage(AfterCoordinates(table).qs, GET.min_rating)
AfterMaxRating(r, GET) == ThenStage(r, MaxRatingStage(r.qs, GET.max_rating))
AfterBusinessType(r, GET) == Then(r, BusinessTypeStage(r.qs, GET.business_type))
AfterSearch(r, GET) == Then(r, SearchStage(r.qs, GET.search))

FilteredQueryset(table, GET) ==
    AfterSearch(AfterBusinessType(AfterMaxRating(AfterMinRating(table, GET),
                                                 GET), GET), GET)

Respond(d) == IF d.exc # None THEN ServerError ELSE JsonResponse(d.list)

AfterDistance(f, GET) ==
    IF f.exc # None THEN ServerError ELSE Respond(DistanceStage(f.qs, GET))

business_locations(table, GET) == AfterDistance(FilteredQueryset(table, GET), GET)

---------------------------------------------------------------------------
(* Inputs *)

MaxBusinesses == 2

Degrees(n) == Some(n * FScale)

\* The values a client saves: a rated cafe, a pub one degree north of it,
\* an unrated cafe on the equator, a rated place on the prime meridian, and
\* one save that leaves latitude unset.  The cafe has a specialisation and
\* the pub a note on its accessibility features.
BusinessInputs ==
    { [name |-> <<"C", "o", "f">>, description |-> <<>>,
       address |-> <<"a", " ", "b">>, city |-> <<"Y", "o">>,
       business_type |-> "cafe", accessibility_level |-> Some(4),
       specialisation |-> <<"I", "t">>, accessibility_features |-> <<>>,
       latitude |-> Degrees(10), longitude |-> Degrees(20),
       owner |-> Some("ann")],
      [name |-> <<"P", "i", "z">>, description |-> <<"t", "o", "p", " ", "c">>,
       address |-> <<"n", "y">>, city |-> <<"B", "a", "t">>,
       business_type |-> "pub", accessibility_level |-> Some(2),
       specialisation |-> <<>>, accessibility_features |-> <<"r", "a", "m", "p">>,
       latitude |-> Degrees(11), longitude |-> Degrees(20),
       owner |-> None],
      [name |-> <<"Z", "o", "o">>, description |-> <<>>,
       address |-> <<"F", "o">>, city |-> <<>>,
       business_type |-> "cafe", accessibility_level |-> None,
       specialisation |-> <<>>, accessibility_features |-> <<>>,
       latitude |-> Degrees(0), longitude |-> Degrees(20),
       owner |-> None],
      [name |-> <<"I", "n", "n">>, description |-> <<"t", "i", "p">>,
       address |-> <<"a", "t">>, city |-> <<"Y", "o">>,
       business_type |-> "other", accessibility_level |-> Some(5),
       specialisation |-> <<>>, accessibility_features |-> <<>>,
       latitude |-> Degrees(10), longitude |-> Degrees(0),
       owner |-> None],
      [name |-> <<"N", "o">>, description |-> <<>>,
       address |-> <<"a">>, city |-> <<>>,
       business_type |-> "other", accessibility_level |-> Some(3),
       specialisation |-> <<>>, accessibility_features |-> <<>>,
       latitude |-> None, longitude |-> Degrees(20),
       owner |-> None] }

\* Raw query-string values, None for a parameter the request does not carry.
RatingRaw ==
    {None, Some(<<>>), Some(<<"0">>), Some(<<"2">>), Some(<<"4">>),
     Some(<<"6">>), Some(<<"x">>), Some(<<"2", ".", "5">>), Some(<<" ", "3">>)}

LatRaw ==
    {None, Some(<<>>), Some(<<"a", "b", "c">>), Some(<<"1", "0">>),
     Some(<<"0">>), Some(<<"i", "n", "f">>), Some(<<"n", "a", "n">>)}

LngRaw ==
    {None, Some(<<"2", "0", ".", "0">>), Some(<<"x">>),
     Some(<<"-", "I", "n", "f">>)}

RadiusRaw ==
    {None, Some(<<>>), Some(<<"1", "0", "0">>), Some(<<"7", "0", "0">>),
     Some(<<"0">>), Some(<<"-", "1">>), Some(<<"a">>),
     Some(<<"i", "n", "f">>), Some(<<"n", "a", "n">>)}

BusinessTypeRaw ==
    {None, Some(""), Some("all"), Some("cafe"), Some("pub"), Some("zoo"),
     Some("Cafe")}

SearchRaw ==
    {None, Some(<<>>), Some(<<" ">>), Some(<<"c", "o">>),
     Some(<<" ", "O", "F", " ">>), Some(<<"z">>), Some(<<"q">>),
     Some(<<"o", " ", "c">>), Some(<<"b", "a", "t">>)}

QueryDict(min_rating, max_rating, business_type, search, lat, lng, radius) ==
    [min_rating |-> min_rating, max_rating |-> max_rating,
     business_type |-> business_type, search |-> search,
     lat |-> lat, lng |-> lng, radius |-> radius]

\* A request with or without a well-formed centre and radius, and with or
\* without a valid minimum rating: the values the other parameters take
\* while one group of parameters runs through all of its values.
BaseGeo ==
    { <<None, None, None>>,
      <<Some(<<"1", "0">>), Some(<<"2", "0", ".", "0">>), Some(<<"1", "0", "0">>)>> }
BaseMin == {None, Some(<<"2">>)}

RatingRequests ==
    { QueryDict(mn, mx, None, None, g[1], g[2], g[3]) :
        mn \in RatingRaw, mx \in RatingRaw, g \in BaseGeo }
GeoRequests ==
    { QueryDict(mn, None, None, None, la, ln, ra) :
        mn \in BaseMin, la \in LatRaw, ln \in LngRaw, ra \in RadiusRaw }
BusinessTypeRequests ==
    { QueryDict(mn, None, bt, None, g[1], g[2], g[3]) :
        mn \in BaseMin, bt \in BusinessTypeRaw, g \in BaseGeo }
SearchRequests ==
    { QueryDict(None, None, bt, se, g[1], g[2], g[3]) :
        bt \in {None, Some("cafe")}, se \in SearchRaw, g \in BaseGeo }

\* Requests in which several parameters are malformed at once.
MalformedRequests ==
    { QueryDict(mn, mx, None, None, la, ln, ra) :
        mn \in {Some(<<"x">>), Some(<<"6">>)},
        mx \in {None, Some(<<"2", ".", "5">>)},
        la \in {Some(<<"a", "b", "c">>), Some(<<"i", "n", "f">>)},
        ln \in {Some(<<"x">>), Some(<<"2", "0", ".", "0">>)},
        ra \in {Some(<<"a">>), Some(<<"1", "0", "0">>)} }

Requests ==
    RatingRequests \cup GeoRequests \cup BusinessTypeRequests
        \cup SearchRequests \cup MalformedRequests

\* The worker processes that serve map requests side by side, and a worker
\* that holds no request.
MaxWorkers == 2
Workers == 1..MaxWorkers
Idle == [pc |-> "idle"]

\* The registered users, and request.user of a request without credentials.
Users == {"ann", "bob"}
AnonymousUser == "anonymous"

---------------------------------------------------------------------------
(* The state machine: the table, and one worker serving one request at a   *)
(* time.  request and response are None while the worker is idle.          *)

Init ==
    /\ businesses = <<>>
    /\ nextId = 1
    /\ request = None
    /\ response = None
    /\ invocations = [w \in Workers |-> Idle]
    /\ favorites = {}
    /\ nextFavoriteId = 1
    /\ profiles = <<>>
    /\ search_history = <<>>

\* Business.objects.create(**f): the row gets the next id (AutoField).
CreateBusiness(f) ==
    /\ request = None
    /\ Len(businesses) < MaxBusinesses
    /\ NotNullSatisfied(f)
    /\ businesses' = Append(businesses, BusinessRow(nextId, f))
    /\ nextId' = nextId + 1
    /\ UNCHANGED <<request, response>>
    /\ UNCHANGED besideWorker

\* GET /api/v1/business-locations/?... arrives.
Receive(GET) ==
    /\ request = None
    /\ request' = Some(GET)
    /\ UNCHANGED <<businesses, nextId, response>>
    /\ UNCHANGED besideWorker

\* A view that clears the owner of the stored records while it answers.
HandleClearingOwner ==
    /\ request # None
    /\ response = None
    /\ response' = Some(business_locations(businesses, Val(request)))
    /\ businesses' = [i \in DOMAIN businesses |-> [businesses[i] EXCEPT !.owner = None]]
    /\ UNCHANGED <<nextId, request>>
    /\ UNCHANGED besideWorker

\* The worker runs the view on the request.
Handle ==
    /\ request # None
    /\ response = None
    /\ response' = Some(business_locations(businesses, Val(request)))
    /\ UNCHANGED <<businesses, nextId, request>>
    /\ UNCHANGED besideWorker

\* The response is sent; the worker is idle again.
Send ==
    /\ response # None
    /\ request' = None
    /\ response' = None
    /\ UNCHANGED <<businesses, nextId>>
    /\ UNCHANGED besideWorker

Next ==
    \/ \E f \in BusinessInputs : CreateBusiness(f)
    \/ \E GET \in Requests : Receive(GET)
    \/ Handle
    \/ Send

Spec == Init /\ [][Next]_vars

---------------------------------------------------------------------------
(* Properties of business_locations.  They are stated on the states in     *)
(* which the worker holds the response to the request it took.             *)

Responded == response # None
GET == Val(request)
Body == Val(response).body
Status == Val(response).status

Ids(list) == {list[i].id : i \in 1..Len(list)}
Rows == {businesses[i] : i \in 1..Len(businesses)}
RowOf(id) == CHOOSE b \in Rows : b.id = id
HasDistance(m) == "distance" \in DOMAIN m

\* What the view answers to the request with parameter k absent.
Without(k) == business_locations(businesses, [GET EXCEPT ![k] = None])
\* ... and with parameter k set to the raw value raw.
With(k, raw) == business_locations(businesses, [GET EXCEPT ![k] = raw])

\* A raw value that is a number for int() and lies in 1..5.
ValidRating(raw) ==
    /\ TruthyStr(raw)
    /\ IntParse(Val(raw)).ok
    /\ IntParse(Val(raw)).v \in 1..5

\* A raw value that is present, not empty, and a number for float().
ParsesAsNumber(raw) == TruthyStr(raw) /\ FloatParse(Val(raw)).ok

AllParse == ParsesAsNumber(GET.lat) /\ ParsesAsNumber(GET.lng) /\ ParsesAsNumber(GET.radius)

Center == <<FloatParse(Val(GET.lat)).f, FloatParse(Val(GET.lng)).f>>
Radius == FloatParse(Val(GET.radius)).f

\* The rows the view's filters (coordinates, rating, type, search) leave.
Candidates == FilteredQueryset(businesses, GET).qs

\* The distance of a returned record from the centre of the request.
MarkerDistance(m) == haversine_distance(Center[1], Center[2], m.latitude, m.longitude)
RowDistance(b) == haversine_distance(Center[1], Center[2], Fin(Val(b.latitude)), Fin(Val(b.longitude)))

\* C1: every record business_locations returns has its latitude and its
\* longitude set, and is a stored record that has both.
C1_ReturnedHaveCoordinates ==
    Responded =>
        \A i \in 1..Len(Body) :
            /\ Body[i].latitude # None
            /\ Body[i].longitude # None
            /\ \E b \in Rows :
                 /\ b.id = Body[i].id
                 /\ b.latitude # None
                 /\ b.longitude # None

\* C1 witness: a response that returns a stored record.
C1_Witness == Responded /\ Len(Body) >= 1 /\ Len(businesses) >= 2

\* C2: with a min_rating and/or max_rating that is an integer in 1..5, every
\* returned record is rated and its level is within the bounds supplied; so
\* min_rating > max_rating returns nothing.
C2_RatingWithinBounds ==
    Responded =>
        /\ ValidRating(GET.min_rating) =>
             \A i \in 1..Len(Body) :
                 /\ Body[i].accessibility_level # None
                 /\ Val(Body[i].accessibility_level) >= IntParse(Val(GET.min_rating)).v
        /\ ValidRating(GET.max_rating) =>
             \A i \in 1..Len(Body) :
                 /\ Body[i].accessibility_level # None
                 /\ Val(Body[i].accessibility_level) <= IntParse(Val(GET.max_rating)).v
        /\ ( /\ ValidRating(GET.min_rating)
             /\ ValidRating(GET.max_rating)
             /\ IntParse(Val(GET.min_rating)).v > IntParse(Val(GET.max_rating)).v )
           => Body = <<>>

\* C2 witness: both bounds valid, a rated record returned, and a stored
\* unrated record left out.
C2_Witness ==
    /\ Responded
    /\ ValidRating(GET.min_rating)
    /\ ValidRating(GET.max_rating)
    /\ Len(Body) = 1
    /\ \E b \in Rows : b.accessibility_level = None

\* The distance computation fails for the request: haversine_distance raises
\* for a record the loop takes.
DistanceFails ==
    \E i \in 1..Len(Candidates) :
        /\ LoopTakes(Candidates[i])
        /\ ~RowDistance(Candidates[i]).ok

\* What distance filtering being active, or not, means for the response.
DistanceApplied ==
    \A i \in 1..Len(Body) :
        /\ HasDistance(Body[i])
        /\ MarkerDistance(Body[i]).ok
        /\ FloatLE(MarkerDistance(Body[i]).f, Radius)
DistanceNotApplied == \A i \in 1..Len(Body) : ~HasDistance(Body[i])

\* C3 as stated: distance filtering is active exactly when lat, lng and
\* radius are all present and all parse as numbers.
C3_ActiveWhenAllParse ==
    Responded =>
        /\ AllParse => DistanceApplied
        /\ ~AllParse => DistanceNotApplied

\* C3 as amended: distance filtering is active exactly when lat, lng and
\* radius are all present, all parse as numbers, and haversine_distance
\* raises no error (it does for an infinite lat or lng).  When active, every
\* returned record is within the radius and carries a distance; when not,
\* none carries a distance.
C3_ActiveWhenAllParseAndNoError ==
    Responded =>
        /\ (AllParse /\ ~DistanceFails) => DistanceApplied
        /\ ~(AllParse /\ ~DistanceFails) => DistanceNotApplied

\* C3 witness: distance filtering active, one record returned with its
\* distance and another stored record left out.
C3_Witness ==
    /\ Responded
    /\ AllParse
    /\ ~DistanceFails
    /\ Len(Body) = 1
    /\ HasDistance(Body[1])
    /\ Len(Candidates) = 2

AllFinite == AllParse /\ IsFin(Center[1]) /\ IsFin(Center[2]) /\ IsFin(Radius)

\* C4: with lat, lng and radius all valid, the result is exactly the
\* records that pass the other filters and lie within the radius; none is
\* omitted, whatever its coordinates (zero included).
C4_ExactlyThoseWithinRadius ==
    (Responded /\ AllFinite /\ ~DistanceFails) =>
        Ids(Body) =
            { Candidates[i].id : i \in
                { j \in 1..Len(Candidates) :
                    /\ RowDistance(Candidates[j]).ok
                    /\ FloatLE(RowDistance(Candidates[j]).f, Radius) } }

\* One of lat, lng, radius is missing, empty or not a number.
SomeDistanceParameterUnusable ==
    ~ParsesAsNumber(GET.lat) \/ ~ParsesAsNumber(GET.lng) \/ ~ParsesAsNumber(GET.radius)

NoDistanceParameters ==
    business_locations(businesses,
        [GET EXCEPT !.lat = None, !.lng = None, !.radius = None])

\* C5: if any of lat, lng, radius is missing, empty or unparseable, the
\* response is the one the request gets without any distance parameter:
\* every record that passes the other filters, none with a distance.
C5_FallbackToUnfiltered ==
    (Responded /\ SomeDistanceParameterUnusable) =>
        /\ Val(response) = NoDistanceParameters
        /\ Ids(Body) = Ids(Candidates)
        /\ DistanceNotApplied

\* C5 witness: lat is not a number while lng and radius are, and two records
\* are returned.
C5_Witness ==
    /\ Responded
    /\ TruthyStr(GET.lat)
    /\ ~FloatParse(Val(GET.lat)).ok
    /\ ParsesAsNumber(GET.lng)
    /\ ParsesAsNumber(GET.radius)
    /\ IsFin(Radius)
    /\ Len(Body) = 2

\* A rating parameter that is supplied but is no integer in 1..5.
InvalidRating(raw) == TruthyStr(raw) /\ ~ValidRating(raw)

\* C6: a min_rating (max_rating) that is not an integer in 1..5 gets the
\* response the request gets without that parameter.
C6_InvalidRatingIsAbsent ==
    Responded =>
        /\ InvalidRating(GET.min_rating) => Val(response) = Without("min_rating")
        /\ InvalidRating(GET.max_rating) => Val(response) = Without("max_rating")

\* C6 witness: min_rating out of range, max_rating valid and applied.
C6_Witness ==
    /\ Responded
    /\ InvalidRating(GET.min_rating)
    /\ IntParse(Val(GET.min_rating)).ok
    /\ ValidRating(GET.max_rating)
    /\ Len(Body) = 1
    /\ Len(businesses) = 2

MalformedRating(raw) == TruthyStr(raw) /\ ~IntParse(Val(raw)).ok
MalformedNumber(raw) == TruthyStr(raw) /\ ~FloatParse(Val(raw)).ok

WellFormedRatings == {raw \in RatingRaw : TruthyStr(raw) /\ IntParse(Val(raw)).ok}
WellFormedNumbers(raws) == {raw \in raws : ParsesAsNumber(raw)}

\* The records returned for the request include those returned with
\* parameter k set to any of the values raws.
Broadens(k, raws) == \A raw \in raws : Ids(With(k, raw).body) \subseteq Ids(Body)

\* C8: for each of min_rating, max_rating, lat, lng, radius, the records
\* returned when it is malformed include the records returned when it has
\* any well-formed value, the other parameters being equal.
C8_MalformedBroadens ==
    Responded =>
        /\ MalformedRating(GET.min_rating) => Broadens("min_rating", WellFormedRatings)
        /\ MalformedRating(GET.max_rating) => Broadens("max_rating", WellFormedRatings)
        /\ MalformedNumber(GET.lat) => Broadens("lat", WellFormedNumbers(LatRaw))
        /\ MalformedNumber(GET.lng) => Broadens("lng", WellFormedNumbers(LngRaw))
        /\ MalformedNumber(GET.radius) => Broadens("radius", WellFormedNumbers(RadiusRaw))

\* C8 witness: max_rating malformed, and a well-formed value of it returns
\* strictly fewer records.
C8_Witness ==
    /\ Responded
    /\ MalformedRating(GET.max_rating)
    /\ Len(Body) = 2
    /\ \E raw \in WellFormedRatings : Len(With("max_rating", raw).body) = 1

\* The queryset before and after the business_type block.
BeforeBusinessType == AfterMaxRating(AfterMinRating(businesses, GET), GET).qs
AfterBusinessTypeBlock ==
    AfterBusinessType(AfterMaxRating(AfterMinRating(businesses, GET), GET), GET).qs

NoBusinessTypeFilter == GET.business_type \in {None, Some(""), Some("all")}

\* C9: business_type "all" or empty gets the response of a request without
\* business_type; any other value keeps exactly the records whose
\* business_type equals it, and returns nothing when no record has it.
C9_BusinessTypeFilter ==
    Responded =>
        /\ NoBusinessTypeFilter => Val(response) = Without("business_type")
        /\ ~NoBusinessTypeFilter =>
             /\ Ids(AfterBusinessTypeBlock) =
                  { b.id : b \in { r \in Rows :
                      /\ r.id \in Ids(BeforeBusinessType)
                      /\ r.business_type = Val(GET.business_type) } }
             /\ \A i \in 1..Len(Body) :
                  Body[i].business_type = Val(GET.business_type)
             /\ (\A r \in Rows : r.business_type # Val(GET.business_type))
                  => Body = <<>>

\* C9 witness: a business_type that one of two stored records has.
C9_Witness ==
    /\ Responded
    /\ ~NoBusinessTypeFilter
    /\ Len(BeforeBusinessType) = 2
    /\ Len(Body) = 1

\* The queryset before and after the search block.
BeforeSearch == AfterBusinessTypeBlock
AfterSearchBlock == Candidates

\* The search parameter with the surrounding whitespace removed.
Trimmed == IF GET.search = None THEN <<>> ELSE Strip(Val(GET.search))

\* The term occurs in the column, letter case ignored.
Occurs(term, column) ==
    \E i \in 0..(Len(column) - Len(term)) :
        \A j \in 1..Len(term) : LowerChar(column[i + j]) = LowerChar(term[j])

OccursInRow(term, b) ==
    \/ Occurs(term, b.name)
    \/ Occurs(term, b.description)
    \/ Occurs(term, b.address)
    \/ Occurs(term, b.city)

---------------------------------------------------------------------------
(* The filters of business_locations as predicates on one stored record.   *)

SatisfiesCoordinates(b) == b.latitude # None /\ b.longitude # None

SatisfiesMinRating(b) ==
    ValidRating(GET.min_rating) =>
        /\ b.accessibility_level # None
        /\ Val(b.accessibility_level) >= IntParse(Val(GET.min_rating)).v

SatisfiesMaxRating(b) ==
    ValidRating(GET.max_rating) =>
        /\ b.accessibility_level # None
        /\ Val(b.accessibility_level) <= IntParse(Val(GET.max_rating)).v

SatisfiesBusinessType(b) ==
    ~NoBusinessTypeFilter => b.business_type = Val(GET.business_type)

SatisfiesSearch(b) == Trimmed # <<>> => OccursInRow(Trimmed, b)

\* The radius predicate is active when the three parameters parse and the
\* distance computation does not fail.
SatisfiesRadius(b) ==
    (AllParse /\ ~DistanceFails) =>
        /\ RowDistance(b).ok
        /\ FloatLE(RowDistance(b).f, Radius)

\* C11: the records returned are exactly the stored records that satisfy
\* the conjunction of the active predicates (coordinates, min rating, max
\* rating, business type, search, radius); a conjunction does not depend on
\* the order of its terms, so neither does the set.
C11_ConjunctionOfPredicates ==
    Responded =>
        Ids(Body) =
            { b.id : b \in { r \in Rows :
                /\ SatisfiesCoordinates(r)
                /\ SatisfiesMinRating(r)
                /\ SatisfiesMaxRating(r)
                /\ SatisfiesBusinessType(r)
                /\ SatisfiesSearch(r)
                /\ SatisfiesRadius(r) } }

---------------------------------------------------------------------------
(* Concurrent map requests.  Each worker process runs business_locations   *)
(* with its own locals: it takes a request and builds the (lazy) queryset, *)
(* the database evaluates the queryset in one SELECT when the view first   *)
(* iterates over it, and the view computes the response from the rows it   *)
(* got.  Other workers and writers run between these steps.                *)

\* The records a writer saves while map requests are served.
ConcurrentInputs ==
    { f \in BusinessInputs : f.business_type \in {"cafe", "pub"} /\ f.accessibility_level # None }

\* The map requests the concurrent workers take: a centre and radius; an
\* infinite latitude with a business type.
ConcurrentRequests ==
    { QueryDict(None, None, None, None,
                Some(<<"1", "0">>), Some(<<"2", "0", ".", "0">>), Some(<<"0">>)),
      QueryDict(None, None, Some("pub"), None,
                Some(<<"i", "n", "f">>), Some(<<"2", "0", ".", "0">>),
                Some(<<"1", "0", "0">>)) }

\* The request arrives at worker w, which builds the queryset (lines 47-87
\* touch no row).
Start(w, query) ==
    /\ invocations[w].pc = "idle"
    /\ invocations' = [invocations EXCEPT ![w] = [pc |-> "started", GET |-> query]]
    /\ UNCHANGED <<businesses, nextId, request, response>>
    /\ UNCHANGED accounts

\* A queryset without an ordering: the database may yield the rows in
\* either direction.
EvaluateUnordered(w) ==
    /\ invocations[w].pc = "started"
    /\ \E table \in {businesses, Reverse(businesses)} :
          invocations' = [invocations EXCEPT ![w] =
                      [pc |-> "evaluated", GET |-> invocations[w].GET,
                       seen |-> businesses,
                       rows |-> FilteredQueryset(table, invocations[w].GET)]]
    /\ UNCHANGED <<businesses, nextId, request, response>>
    /\ UNCHANGED accounts

\* `for business in businesses`: the database evaluates the queryset on the
\* table as it is now.  seen records the table the rows were read from.
Evaluate(w) ==
    /\ invocations[w].pc = "started"
    /\ invocations' = [invocations EXCEPT ![w] =
                    [pc |-> "evaluated", GET |-> invocations[w].GET,
                     seen |-> businesses,
                     rows |-> FilteredQueryset(businesses, invocations[w].GET)]]
    /\ UNCHANGED <<businesses, nextId, request, response>>
    /\ UNCHANGED accounts

\* A view that keeps the rows in a module-level variable: it computes from
\* the rows that any worker read.
FinishShared(w) ==
    /\ invocations[w].pc = "evaluated"
    /\ \E v \in Workers :
          /\ invocations[v].pc = "evaluated"
          /\ invocations' = [invocations EXCEPT ![w] =
                          [pc |-> "done", GET |-> invocations[w].GET,
                           seen |-> invocations[w].seen,
                           response |-> AfterDistance(invocations[v].rows, invocations[w].GET)]]
    /\ UNCHANGED <<businesses, nextId, request, response>>
    /\ UNCHANGED accounts

\* The distance block and JsonResponse, computed from the rows of this call.
Finish(w) ==
    /\ invocations[w].pc = "evaluated"
    /\ invocations' = [invocations EXCEPT ![w] =
                    [pc |-> "done", GET |-> invocations[w].GET,
                     seen |-> invocations[w].seen,
                     response |-> AfterDistance(invocations[w].rows, invocations[w].GET)]]
    /\ UNCHANGED <<businesses, nextId, request, response>>
    /\ UNCHANGED accounts

\* The response is sent; the worker is free again.
Release(w) ==
    /\ invocations[w].pc = "done"
    /\ invocations' = [invocations EXCEPT ![w] = Idle]
    /\ UNCHANGED <<businesses, nextId, request, response>>
    /\ UNCHANGED accounts

NextConcurrent ==
    \/ \E f \in ConcurrentInputs : CreateBusiness(f)
    \/ \E w \in Workers, query \in ConcurrentRequests : Start(w, query)
    \/ \E w \in Workers : Evaluate(w)
    \/ \E w \in Workers : Finish(w)
    \/ \E w \in Workers : Release(w)

SpecConcurrent == Init /\ [][NextConcurrent]_vars

Done(w) == invocations[w].pc = "done"

C13_StoredStateUnchanged ==
    [][(response = None /\ response' # None)
           => (businesses' = businesses /\ nextId' = nextId)]_vars

\* C13 witness: a response over two stored records, one of which has an
\* owner and a rating.
C13_Witness ==
    /\ Responded
    /\ Len(businesses) = 2
    /\ Len(Body) >= 1
    /\ \E b \in Rows : b.owner # None /\ b.accessibility_level # None

\* C14: every concurrent invocation returns what business_locations returns
\* when it runs alone on the records the invocation read, whatever the other
\* workers and writers did meanwhile.
C14_SameAsAlone ==
    \A w \in Workers :
        Done(w) => invocations[w].response = business_locations(invocations[w].seen, invocations[w].GET)

\* C14 witness: two invocations with different parameters finished side by
\* side, with different results, and a record was written after one of them
\* had read the table.
C14_Witness ==
    /\ Done(1)
    /\ Done(2)
    /\ invocations[1].GET # invocations[2].GET
    /\ invocations[1].response # invocations[2].response
    /\ invocations[1].seen # businesses
    /\ Len(invocations[1].response.body) >= 1

---------------------------------------------------------------------------
(* Favourites (apps/accounts).  A UserFavorite row is [id, user, business]; *)
(* the table is a set of rows.  unique_together = ["user", "business"] is  *)
(* a constraint of the database: an INSERT that would break it fails with  *)
(* IntegrityError and stores nothing.                                      *)

\* The cap on UserFavorite.id in the model.
MaxFavoriteId == 3

\* The values of <int:business_id> and <int:pk> in a URL: the stored ids
\* and one that is not stored.
UrlIds == 1..3

\* A table with two businesses, owned by ann and by nobody.
StoredBusinesses ==
    LET saved == { f \in BusinessInputs : f.business_type \in {"cafe", "pub"} /\ f.accessibility_level # None }
        first == CHOOSE f \in saved : f.owner # None
        second == CHOOSE f \in saved : f.owner = None
    IN  <<BusinessRow(1, first), BusinessRow(2, second)>>

InitAccounts ==
    /\ businesses = StoredBusinesses
    /\ nextId = 3
    /\ request = None
    /\ response = None
    /\ invocations = [w \in Workers |-> Idle]
    /\ favorites = {}
    /\ nextFavoriteId = 1
    /\ profiles = <<>>
    /\ search_history = <<>>

\* Business.objects.filter(id=business_id).exists()
BusinessExists(id) == \E i \in 1..Len(businesses) : businesses[i].id = id

\* UserFavorite.objects.filter(user=user, business=business)
FavoritesOf(user, business) ==
    { f \in favorites : f.user = user /\ f.business = business }

\* request.user.is_authenticated (permission IsAuthenticated)
IsAuthenticated(user) == user \in Users

\* rest_framework.response.Response
Response(status, data) == [status |-> status, data |-> data]
Unauthorized == Response(401, [detail |-> "Authentication credentials were not provided."])
UnableToToggle == Response(400, [error |-> "Unable to toggle favorite"])
NotFound == Response(404, [detail |-> "Not found."])
InternalServerError == Response(500, None)

\* A handler that lets Http404 pass to the framework.
ToggleExceptLettingHttp404Pass(exc) ==
    IF exc = "Http404" THEN NotFound ELSE UnableToToggle

\* except Exception: return Response({"error": ...}, status=400)
ToggleExcept(exc) == UnableToToggle
Favorited(flag) == Response(200, [favorited |-> flag])

\* What worker w holds once a request of kind op by user on id is finished
\* with the given response; before is the favourites table the request first
\* read and prior the one its predecessor read (both for stating properties).
Finished(op, user, id, before, prior, resp) ==
    [pc |-> "done", op |-> op, user |-> user, business |-> id,
     before |-> before, prior |-> prior, response |-> resp]

\* toggle_favorite up to the first SELECT of get_or_create: the permission
\* check, get_object_or_404 (its Http404 is caught by `except Exception`),
\* and the lookup of the favourite.
ToggleLookup(user, id, prior) ==
    IF ~IsAuthenticated(user)
    THEN Finished("toggle", user, id, favorites, prior, Unauthorized)
    ELSE IF ~BusinessExists(id)
    THEN Finished("toggle", user, id, favorites, prior, ToggleExcept("Http404"))
    ELSE [pc |-> IF FavoritesOf(user, id) = {} THEN "insert" ELSE "delete",
          op |-> "toggle", user |-> user, business |-> id,
          favorite |-> IF FavoritesOf(user, id) = {} THEN None
                       ELSE Some((CHOOSE f \in FavoritesOf(user, id) : TRUE).id),
          before |-> favorites, prior |-> prior]

\* POST favorites/toggle/<business_id>/ arrives at worker w.
ToggleGet(w, user, id) ==
    /\ invocations[w].pc = "idle"
    /\ invocations' = [invocations EXCEPT ![w] = ToggleLookup(user, id, None)]
    /\ UNCHANGED <<businesses, nextId, request, response>>
    /\ UNCHANGED accounts

\* The client that got the answer of a toggle sends the same toggle again.
ToggleAgain(w) ==
    /\ invocations[w].pc = "done"
    /\ invocations[w].op = "toggle"
    /\ invocations[w].response.status = 200
    /\ invocations' = [invocations EXCEPT ![w] =
          ToggleLookup(invocations[w].user, invocations[w].business,
                       Some(invocations[w].before))]
    /\ UNCHANGED <<businesses, nextId, request, response>>
    /\ UNCHANGED accounts

\* A table without the constraint.
InsertAllowedAlways(user, business) == TRUE

\* unique_together: the INSERT of a row for (user, business) is accepted
\* when the table holds no row for the pair.
InsertAllowed(user, business) == FavoritesOf(user, business) = {}

\* get_or_create found no row and creates one: created = True and the view
\* answers favorited = True; on IntegrityError get_or_create reads again.
ToggleInsert(w) ==
    /\ invocations[w].pc = "insert"
    /\ invocations[w].op = "toggle"
    /\ IF InsertAllowed(invocations[w].user, invocations[w].business)
       THEN /\ nextFavoriteId <= MaxFavoriteId
            /\ favorites' = favorites \cup
                 {[id |-> nextFavoriteId, user |-> invocations[w].user,
                   business |-> invocations[w].business]}
            /\ nextFavoriteId' = nextFavoriteId + 1
            /\ invocations' = [invocations EXCEPT ![w] =
                 Finished("toggle", invocations[w].user, invocations[w].business,
                          invocations[w].before, invocations[w].prior,
                          Favorited(TRUE))]
       ELSE /\ invocations' = [invocations EXCEPT ![w].pc = "reget"]
            /\ UNCHANGED <<favorites, nextFavoriteId>>
    /\ UNCHANGED <<businesses, nextId, request, response, profiles, search_history>>

\* get_or_create after IntegrityError: the row another request created is
\* taken (created = False); if it is gone again, IntegrityError is raised
\* anew and the view's `except Exception` answers 400.
ToggleReget(w) ==
    /\ invocations[w].pc = "reget"
    /\ invocations' = [invocations EXCEPT ![w] =
          IF FavoritesOf(invocations[w].user, invocations[w].business) = {}
          THEN Finished("toggle", invocations[w].user, invocations[w].business,
                        invocations[w].before, invocations[w].prior,
                        ToggleExcept("IntegrityError"))
          ELSE [invocations[w] EXCEPT
                  !.pc = "delete",
                  !.favorite = Some((CHOOSE f \in FavoritesOf(invocations[w].user,
                                        invocations[w].business) : TRUE).id)]]
    /\ UNCHANGED <<businesses, nextId, request, response>>
    /\ UNCHANGED accounts

\* A view that removes every favourite of the user.
ToggleDeleteAllOfUser(w) ==
    /\ invocations[w].pc = "delete"
    /\ invocations[w].op = "toggle"
    /\ favorites' = { f \in favorites : f.user # invocations[w].user }
    /\ invocations' = [invocations EXCEPT ![w] =
          Finished("toggle", invocations[w].user, invocations[w].business,
                   invocations[w].before, invocations[w].prior,
                   Favorited(FALSE))]
    /\ UNCHANGED <<businesses, nextId, request, response, nextFavoriteId, profiles,
                 search_history>>

\* favorite.delete(): DELETE ... WHERE id = favorite.id, and the view
\* answers favorited = False.
ToggleDelete(w) ==
    /\ invocations[w].pc = "delete"
    /\ invocations[w].op = "toggle"
    /\ favorites' = { f \in favorites : f.id # Val(invocations[w].favorite) }
    /\ invocations' = [invocations EXCEPT ![w] =
          Finished("toggle", invocations[w].user, invocations[w].business,
                   invocations[w].before, invocations[w].prior,
                   Favorited(FALSE))]
    /\ UNCHANGED <<businesses, nextId, request, response, nextFavoriteId, profiles,
                 search_history>>

\* Requests served one after the other by one worker.
NextToggle ==
    \/ \E user \in Users \cup {AnonymousUser}, id \in UrlIds : ToggleGet(1, user, id)
    \/ ToggleAgain(1)
    \/ ToggleInsert(1)
    \/ ToggleDelete(1)
    \/ Release(1)

SpecToggle == InitAccounts /\ [][NextToggle]_vars

\* The (user, business) pairs that are favourites in a table.
Pairs(table) == { <<f.user, f.business>> : f \in table }
\* The rows of a table that belong to other users or other businesses.
OtherRows(table, user, business) ==
    { f \in table : ~(f.user = user /\ f.business = business) }

\* A toggle by an authenticated user on a stored business is finished.
Toggled(w) ==
    /\ invocations[w].pc = "done"
    /\ invocations[w].op = "toggle"
    /\ IsAuthenticated(invocations[w].user)
    /\ BusinessExists(invocations[w].business)

FlippedBy(inv) ==
    LET pair == <<inv.user, inv.business>>
        had == pair \in Pairs(inv.before)
    IN  /\ inv.response = Favorited(~had)
        /\ (pair \in Pairs(favorites)) = ~had
        /\ Cardinality(FavoritesOf(inv.user, inv.business)) = (IF had THEN 0 ELSE 1)
        /\ OtherRows(favorites, inv.user, inv.business)
             = OtherRows(inv.before, inv.user, inv.business)
        /\ inv.prior # None => Pairs(favorites) = Pairs(Val(inv.prior))

\* C15: a toggle by an authenticated user on an existing business creates
\* the favourite and answers favorited = true if there was none, deletes it
\* and answers favorited = false if there was one; the favourites of other
\* users and of other businesses stay as they were; and the second of two
\* successive toggles leaves the favourites that were there before the first.
C15_ToggleFlips == Toggled(1) => FlippedBy(invocations[1])

\* C15 witness: the second of two successive toggles is finished; it removed
\* the favourite the first had created, and another favourite is stored.
C15_Witness ==
    /\ Toggled(1)
    /\ invocations[1].prior # None
    /\ invocations[1].response = Favorited(FALSE)
    /\ Cardinality(favorites) = 1

---------------------------------------------------------------------------
(* Favourites created and deleted through favorites/ and favorites/<pk>/,  *)
(* and concurrent requests on the favourites.                              *)


\* UserFavoritesListView.create: the permission check, the serializer's
\* check that the business exists, and perform_create's INSERT.  The
\* serializer has no field for user, so the pair is checked by the database
\* only: IntegrityError is not handled and the request is answered 500.
FavoriteCreate(w, user, id) ==
    /\ invocations[w].pc = "idle"
    /\ IF IsAuthenticated(user) /\ BusinessExists(id) /\ InsertAllowed(user, id)
       THEN /\ nextFavoriteId <= MaxFavoriteId
            /\ favorites' = favorites \cup
                 {[id |-> nextFavoriteId, user |-> user, business |-> id]}
            /\ nextFavoriteId' = nextFavoriteId + 1
            /\ invocations' = [invocations EXCEPT ![w] =
                 Finished("create", user, id, favorites, None,
                          Response(201, [id |-> nextFavoriteId, business |-> id]))]
       ELSE /\ invocations' = [invocations EXCEPT ![w] =
                 Finished("create", user, id, favorites, None,
                    IF ~IsAuthenticated(user) THEN Unauthorized
                    ELSE IF ~BusinessExists(id)
                    THEN Response(400, [business |-> "object does not exist"])
                    ELSE InternalServerError)]
            /\ UNCHANGED <<favorites, nextFavoriteId>>
    /\ UNCHANGED <<businesses, nextId, request, response, profiles, search_history>>

\* A queryset that is not filtered by user.
FavoritesQuerysetOfAll(user) == favorites

\* get_queryset of the two favourites views:
\* UserFavorite.objects.filter(user=self.request.user)
FavoritesQueryset(user) == { f \in favorites : f.user = user }

\* UserFavoriteDetailView.destroy, get_object: the favourite pk among the
\* favourites of the requesting user.
DestroyGet(w, user, pk) ==
    /\ invocations[w].pc = "idle"
    /\ invocations' = [invocations EXCEPT ![w] =
          IF ~IsAuthenticated(user)
          THEN Finished("destroy", user, pk, favorites, None, Unauthorized)
          ELSE IF ~\E f \in FavoritesQueryset(user) : f.id = pk
          THEN Finished("destroy", user, pk, favorites, None, NotFound)
          ELSE [pc |-> "delete", op |-> "destroy", user |-> user,
                business |-> pk, favorite |-> Some(pk),
                before |-> favorites, prior |-> None]]
    /\ UNCHANGED <<businesses, nextId, request, response>>
    /\ UNCHANGED accounts

\* perform_destroy: instance.delete(), answered 204.
DestroyDelete(w) ==
    /\ invocations[w].pc = "delete"
    /\ invocations[w].op = "destroy"
    /\ favorites' = { f \in favorites : f.id # Val(invocations[w].favorite) }
    /\ invocations' = [invocations EXCEPT ![w] =
          Finished("destroy", invocations[w].user, invocations[w].business,
                   invocations[w].before, None, Response(204, None))]
    /\ UNCHANGED <<businesses, nextId, request, response, nextFavoriteId, profiles,
                 search_history>>

\* The concurrent requests on the favourites: two workers serve the
\* requests of both users on one business.
FavoriteWorkers == {1, 2}
FavoriteUsers == Users
FavoriteBusinessIds == {1}

NextFavorites ==
    \/ \E w \in FavoriteWorkers, user \in FavoriteUsers, id \in FavoriteBusinessIds :
          ToggleGet(w, user, id)
    \/ \E w \in FavoriteWorkers : ToggleInsert(w)
    \/ \E w \in FavoriteWorkers : ToggleReget(w)
    \/ \E w \in FavoriteWorkers : ToggleDelete(w)
    \/ \E w \in FavoriteWorkers, user \in FavoriteUsers, id \in FavoriteBusinessIds :
          FavoriteCreate(w, user, id)
    \/ \E w \in FavoriteWorkers, user \in FavoriteUsers, pk \in 1..MaxFavoriteId :
          DestroyGet(w, user, pk)
    \/ \E w \in FavoriteWorkers : DestroyDelete(w)
    \/ \E w \in FavoriteWorkers : Release(w)

SpecFavorites == InitAccounts /\ [][NextFavorites]_vars

UniquePerPair ==
    \A f \in favorites, g \in favorites :
        (f.user = g.user /\ f.business = g.business) => f = g

\* Worker w makes an attempt to store a favourite for a pair that has one:
\* the INSERT of the create view, or the INSERT of toggle's get_or_create.
SecondCreateBy(w) ==
    \/ /\ invocations[w].pc = "idle"
       /\ invocations'[w].pc = "done"
       /\ invocations'[w].op = "create"
       /\ FavoritesOf(invocations'[w].user, invocations'[w].business) # {}
    \/ /\ invocations[w].pc = "insert"
       /\ invocations'[w] # invocations[w]
       /\ FavoritesOf(invocations[w].user, invocations[w].business) # {}

SecondCreateFails(w) ==
    /\ favorites' = favorites
    /\ nextFavoriteId' = nextFavoriteId
    /\ \/ invocations'[w].pc = "reget"
       \/ invocations'[w].response.status >= 400

\* C16: whatever requests create, delete and toggle favourites, one after
\* the other or interleaved, the table never holds two favourites for one
\* (user, business) pair, and an attempt to store a second one fails and
\* leaves the table as it was.
C16_OneFavoritePerPair ==
    /\ []UniquePerPair
    /\ [][\A w \in Workers : SecondCreateBy(w) => SecondCreateFails(w)]_vars

\* C16 witness: a create request was refused for a pair that has a
\* favourite, while the INSERT of a concurrent toggle has failed on a pair
\* for which another request had stored a favourite in between.
C16_Witness ==
    \E w1 \in Workers, w2 \in Workers :
        /\ invocations[w1].pc = "done"
        /\ invocations[w1].op = "create"
        /\ invocations[w1].response = InternalServerError
        /\ Cardinality(FavoritesOf(invocations[w1].user, invocations[w1].business)) = 1
        /\ invocations[w2].pc = "reget"

---------------------------------------------------------------------------
(* The profile endpoints of apps/accounts: update_user_type, user_stats    *)
(* and UserProfileView.  The UserProfile table holds one row per profile;  *)
(* user is a OneToOneField, so the database refuses a second row for a     *)
(* user.  Of a profile the user_type and assessor_training_completed       *)
(* columns are kept.                                                       *)

\* USER_TYPE_CHOICES
UserTypeChoices ==
    { <<"regular", "Regular User">>, <<"business", "Business Owner">>,
      <<"assessor", "Volunteer Assessor">> }
UserTypeDisplay(user_type) ==
    (CHOOSE c \in UserTypeChoices : c[1] = user_type)[2]

\* A view that takes any value that is given.
AcceptedUserTypeAnyGiven(user_type) == user_type # None

\* user_type in ["regular", "business", "assessor"]
AcceptedUserType(user_type) ==
    user_type \in {Some("regular"), Some("business"), Some("assessor")}

\* The field defaults of UserProfile.
DefaultProfile == [user_type |-> "regular", assessor_training_completed |-> FALSE]

\* The row UserProfile.objects.create(user=user) stores.
CreatedProfile(user) ==
    [user |-> user,
     user_type |-> DefaultProfile.user_type,
     assessor_training_completed |-> DefaultProfile.assessor_training_completed]

\* UserProfile.objects.filter(user=user).exists()
HasProfile(table, user) == \E i \in 1..Len(table) : table[i].user = user

\* UserProfile.objects.get(user=user), None for DoesNotExist.
ProfileIn(table, user) ==
    IF HasProfile(table, user)
    THEN Some(table[CHOOSE i \in 1..Len(table) : table[i].user = user])
    ELSE None

\* A table without the unique constraint on user.
ProfileInsertAllowedAlways(table, user) == TRUE

\* OneToOneField: the INSERT of a second row for a user fails.
ProfileInsertAllowed(table, user) == ~HasProfile(table, user)

\* profile.save() of a loaded object: the row of the user gets its fields.
SavedProfile(table, row) ==
    [i \in 1..Len(table) |-> IF table[i].user = row.user THEN row ELSE table[i]]

\* A property that looks at the training flag only.
can_assess_businessesByTraining(profile) == profile.assessor_training_completed

is_assessor(profile) == profile.user_type = "assessor"
can_assess_businesses(profile) ==
    is_assessor(profile) /\ profile.assessor_training_completed

InvalidUserType == Response(400, [error |-> "Invalid user type"])
UserTypeUpdated(user_type) ==
    Response(200, [message |-> <<"User type updated to ", user_type>>,
                   user_type |-> UserTypeDisplay(user_type)])

\* The record of a request that is answered without touching the table.
Refused(op, user, user_type, data, resp) ==
    [pc |-> "done", op |-> op, user |-> user, user_type |-> user_type,
     data |-> data, created |-> FALSE, instance |-> None, response |-> resp]

\* The first SELECT of UserProfile.objects.get_or_create(user=user); after
\* names the step that follows get_or_create.  instance is the profile
\* object the view holds.
GetOrCreate(op, user, user_type, data, after) ==
    [pc |-> IF HasProfile(profiles, user) THEN after ELSE "profile_insert",
     op |-> op, user |-> user, user_type |-> user_type, data |-> data,
     created |-> FALSE, instance |-> ProfileIn(profiles, user), after |-> after]

\* The record of an answered request that went through get_or_create.
Answer(inv, resp) ==
    [pc |-> "done", op |-> inv.op, user |-> inv.user, user_type |-> inv.user_type,
     data |-> inv.data, created |-> inv.created, instance |-> inv.instance,
     response |-> resp]

\* POST update-type/ with request.data.get("user_type") = user_type: the
\* permission check, the check of the value, and the first SELECT of
\* get_or_create.
UpdateTypeGet(w, user, user_type) ==
    /\ invocations[w].pc = "idle"
    /\ invocations' = [invocations EXCEPT ![w] =
          IF ~IsAuthenticated(user)
          THEN Refused("update_type", user, user_type, None, Unauthorized)
          ELSE IF ~AcceptedUserType(user_type)
          THEN Refused("update_type", user, user_type, None, InvalidUserType)
          ELSE GetOrCreate("update_type", user, user_type, None, "save")]
    /\ UNCHANGED <<businesses, nextId, request, response>>
    /\ UNCHANGED accounts

\* get_or_create found no profile and creates one; if another request has
\* created it meanwhile the INSERT fails and get_or_create reads that row.
ProfileInsert(w) ==
    /\ invocations[w].pc = "profile_insert"
    /\ IF ProfileInsertAllowed(profiles, invocations[w].user)
       THEN /\ profiles' = Append(profiles, CreatedProfile(invocations[w].user))
            /\ invocations' = [invocations EXCEPT
                                 ![w].pc = invocations[w].after,
                                 ![w].created = TRUE,
                                 ![w].instance = Some(CreatedProfile(invocations[w].user))]
       ELSE /\ invocations' = [invocations EXCEPT
                                 ![w].pc = invocations[w].after,
                                 ![w].instance = ProfileIn(profiles, invocations[w].user)]
            /\ UNCHANGED profiles
    /\ UNCHANGED <<businesses, nextId, request, response, favorites, nextFavoriteId,
                 search_history>>

\* profile.user_type = user_type; profile.save(): the row of the user gets
\* the fields of the object the view holds.
ProfileSave(w) ==
    /\ invocations[w].pc = "save"
    /\ profiles' = SavedProfile(profiles,
          [Val(invocations[w].instance) EXCEPT
              !.user_type = Val(invocations[w].user_type)])
    /\ invocations' = [invocations EXCEPT ![w] =
          Answer(invocations[w], UserTypeUpdated(Val(invocations[w].user_type)))]
    /\ UNCHANGED <<businesses, nextId, request, response, favorites, nextFavoriteId,
                 search_history>>

\* GET stats/: the permission check and the first SELECT of get_or_create.
StatsGet(w, user) ==
    /\ invocations[w].pc = "idle"
    /\ invocations' = [invocations EXCEPT ![w] =
          IF ~IsAuthenticated(user)
          THEN Refused("user_stats", user, None, None, Unauthorized)
          ELSE GetOrCreate("user_stats", user, None, None, "stats")]
    /\ UNCHANGED <<businesses, nextId, request, response>>
    /\ UNCHANGED accounts

\* The stats of the profile object the view holds.
StatsRespond(w) ==
    /\ invocations[w].pc = "stats"
    /\ invocations' = [invocations EXCEPT ![w] =
          Answer(invocations[w],
             Response(200,
                [user_type |-> Val(invocations[w].instance).user_type,
                 can_assess_businesses |->
                     can_assess_businesses(Val(invocations[w].instance))]))]
    /\ UNCHANGED <<businesses, nextId, request, response>>
    /\ UNCHANGED accounts

\* The errors of UserUpdateSerializer on a request body, of which the key
\* profile is kept (None when the body has no such key): profile is
\* required unless the update is partial, and its user_type is one of the
\* choices.
UpdateErrors(method, data) ==
    IF data = None
    THEN IF method = "PUT" THEN {"profile"} ELSE {}
    ELSE IF Val(data).user_type # None
            /\ Val(data).user_type \notin {Some(c[1]) : c \in UserTypeChoices}
         THEN {"profile"}
         ELSE {}

\* `if profile_data:` of UserUpdateSerializer.update: the body has the
\* key profile and at least one field under it.
HasProfileData(data) ==
    /\ data # None
    /\ \E k \in DOMAIN Val(data) : Val(data)[k] # None

\* for attr, value in profile_data.items(): setattr(profile, attr, value)
WithAttributes(profile, profile_data) ==
    [k \in DOMAIN profile |->
        IF k \in DOMAIN profile_data /\ profile_data[k] # None
        THEN Val(profile_data[k])
        ELSE profile[k]]

\* PUT or PATCH profile/: the permission check, the validation, and
\* UserUpdateSerializer.update up to the first SELECT of get_or_create.
UpdateGet(w, method, user, data) ==
    /\ invocations[w].pc = "idle"
    /\ invocations' = [invocations EXCEPT ![w] =
          IF ~IsAuthenticated(user)
          THEN Refused("update", user, None, data, Unauthorized)
          ELSE IF UpdateErrors(method, data) # {}
          THEN Refused("update", user, None, data,
                       Response(400, UpdateErrors(method, data)))
          ELSE IF ~HasProfileData(data)
          THEN Refused("update", user, None, data,
                       Response(200, ProfileIn(profiles, user)))
          ELSE GetOrCreate("update", user, None, data, "update_save")]
    /\ UNCHANGED <<businesses, nextId, request, response>>
    /\ UNCHANGED accounts

\* The attributes of profile_data are set on the profile and it is saved.
UpdateSave(w) ==
    /\ invocations[w].pc = "update_save"
    /\ profiles' = SavedProfile(profiles,
          WithAttributes(Val(invocations[w].instance), Val(invocations[w].data)))
    /\ invocations' = [invocations EXCEPT ![w] =
          Answer(invocations[w],
             Response(200,
                Some(WithAttributes(Val(invocations[w].instance),
                                    Val(invocations[w].data)))))]
    /\ UNCHANGED <<businesses, nextId, request, response, favorites, nextFavoriteId,
                 search_history>>

\* The values of user_type in the request body; None for a body without it.
UserTypeRaw ==
    {None, Some(""), Some("regular"), Some("business"), Some("assessor"),
     Some("admin"), Some("Assessor")}

\* The values under the key profile of a request body: no such key, an
\* empty object, a type with the training flag, a type alone, the flag
\* alone, and a type that is not among the choices.
ProfileData(user_type, assessor_training_completed) ==
    Some([user_type |-> user_type,
          assessor_training_completed |-> assessor_training_completed])
ProfileRaw ==
    { None,
      ProfileData(None, None),
      ProfileData(Some("assessor"), Some(TRUE)),
      ProfileData(Some("business"), None),
      ProfileData(None, Some(TRUE)),
      ProfileData(Some("admin"), None) }

\* The updates: a PUT with each of these, and a PATCH without the key.
UpdateRequests ==
    {<<"PUT", data>> : data \in ProfileRaw} \cup {<<"PATCH", None>>}

\* Two workers serve the requests.
ProfileWorkers == {1, 2}

NextProfiles ==
    \/ \E w \in ProfileWorkers, user \in Users \cup {AnonymousUser},
          user_type \in UserTypeRaw : UpdateTypeGet(w, user, user_type)
    \/ \E w \in ProfileWorkers : ProfileInsert(w)
    \/ \E w \in ProfileWorkers : ProfileSave(w)
    \/ \E w \in ProfileWorkers : Release(w)

SpecProfiles == InitAccounts /\ [][NextProfiles]_vars

\* The three profile endpoints side by side: update_user_type towards and
\* away from assessor, user_stats, and the profile update.  One user sends
\* updates; every user, logged in or not, asks for stats.
UpdatingUsers == {"ann"}

NextUserUpdate ==
    \/ \E w \in ProfileWorkers, user \in UpdatingUsers,
          user_type \in {Some("regular"), Some("assessor")} :
             UpdateTypeGet(w, user, user_type)
    \/ \E w \in ProfileWorkers : ProfileInsert(w)
    \/ \E w \in ProfileWorkers : ProfileSave(w)
    \/ \E w \in ProfileWorkers, user \in Users \cup {AnonymousUser} : StatsGet(w, user)
    \/ \E w \in ProfileWorkers : StatsRespond(w)
    \/ \E w \in ProfileWorkers, user \in UpdatingUsers, r \in UpdateRequests :
             UpdateGet(w, r[1], user, r[2])
    \/ \E w \in ProfileWorkers : UpdateSave(w)
    \/ \E w \in ProfileWorkers : Release(w)

SpecUserUpdate == InitAccounts /\ [][NextUserUpdate]_vars

\* Worker w answers an update_user_type request in this step.
UpdateTypeAnswered(w) ==
    /\ invocations[w].pc # "done"
    /\ invocations'[w].pc = "done"
    /\ invocations'[w].op = "update_type"
    /\ IsAuthenticated(invocations'[w].user)

ValidUserTypes == {"regular", "business", "assessor"}

UpdateTypeOutcome(w) ==
    LET call == invocations'[w]
    IN  IF call.user_type # None /\ Val(call.user_type) \in ValidUserTypes
        THEN /\ call.response.status = 200
             /\ ProfileIn(profiles', call.user) # None
             /\ Val(ProfileIn(profiles', call.user)).user_type = Val(call.user_type)
             /\ \A u \in Users \ {call.user} :
                   ProfileIn(profiles', u) = ProfileIn(profiles, u)
        ELSE /\ call.response = Response(400, [error |-> "Invalid user type"])
             /\ profiles' = profiles

\* Between the arrival of a request with an invalid value and its answer no
\* step of its worker touches a profile.
RejectedWithoutWrite(w) ==
    (invocations'[w] # invocations[w] /\ profiles' # profiles
       /\ invocations'[w].op = "update_type")
        => /\ invocations'[w].user_type # None
           /\ Val(invocations'[w].user_type) \in ValidUserTypes

\* C17: update_user_type by an authenticated user with user_type regular,
\* business or assessor is answered 200 and leaves the user's profile with
\* that type, creating the profile when the user has none; with any other
\* value, or none, it is answered 400 "Invalid user type" and no profile is
\* created or modified.
C17_UserTypeUpdate ==
    [][\A w \in Workers :
          /\ UpdateTypeAnswered(w) => UpdateTypeOutcome(w)
          /\ RejectedWithoutWrite(w)]_vars

\* C17 witness: a request for assessor by a user without a profile was
\* answered after the profile was created, and a request with an invalid
\* value was answered 400.
C17_Witness ==
    \E w1 \in Workers, w2 \in Workers :
        /\ invocations[w1].pc = "done"
        /\ invocations[w1].op = "update_type"
        /\ invocations[w1].created
        /\ invocations[w1].response.status = 200
        /\ ProfileIn(profiles, invocations[w1].user) =
              Some([CreatedProfile(invocations[w1].user) EXCEPT !.user_type = "assessor"])
        /\ invocations[w2].pc = "done"
        /\ invocations[w2].op = "update_type"
        /\ invocations[w2].user_type = Some("admin")
        /\ invocations[w2].response = InvalidUserType
        /\ ProfileIn(profiles, invocations[w2].user) = None

\* The stored profiles, and those of one user.
ProfileRows == {profiles[i] : i \in 1..Len(profiles)}
RowsOfUser(table, user) == {i \in 1..Len(table) : table[i].user = user}

\* An assessor who has completed the training.
TrainedAssessor(p) == p.user_type = "assessor" /\ p.assessor_training_completed = TRUE

\* C22: can_assess_businesses of a stored profile is true exactly when its
\* user_type is assessor and assessor_training_completed is true, and
\* user_stats reports it so for the profile it read; when a step changes
\* the type of a profile from assessor to another type, the profile cannot
\* assess afterwards, whatever its training flag.
C22_CanAssessBusinesses ==
    /\ [](\A p \in ProfileRows : can_assess_businesses(p) <=> TrainedAssessor(p))
    /\ [](\A w \in Workers :
            (invocations[w].pc = "done" /\ invocations[w].op = "user_stats"
               /\ invocations[w].response.status = 200) =>
              (invocations[w].response.data.can_assess_businesses
                 <=> TrainedAssessor(Val(invocations[w].instance))))
    /\ [][\A u \in Users :
            (/\ HasProfile(profiles, u)
             /\ Val(ProfileIn(profiles, u)).user_type = "assessor"
             /\ Val(ProfileIn(profiles', u)).user_type # "assessor")
            => ~can_assess_businesses(Val(ProfileIn(profiles', u)))]_vars

\* C22 witness: update_user_type has moved a trained assessor to regular;
\* the training flag of the profile is still set, and user_stats, asked
\* afterwards, reports that the user cannot assess.
C22_Witness ==
    \E w1 \in Workers, w2 \in Workers :
        /\ invocations[w1].pc = "done"
        /\ invocations[w1].op = "update_type"
        /\ invocations[w1].user_type = Some("regular")
        /\ TrainedAssessor(Val(invocations[w1].instance))
        /\ invocations[w2].pc = "done"
        /\ invocations[w2].op = "user_stats"
        /\ invocations[w2].user = invocations[w1].user
        /\ invocations[w2].response.status = 200
        /\ Val(invocations[w2].instance).assessor_training_completed
        /\ ~invocations[w2].response.data.can_assess_businesses

\* No user has two profiles.
AtMostOneProfile ==
    \A u \in Users : Cardinality(RowsOfUser(profiles, u)) <= 1

\* Worker w answers, in this step, a profile update that carries profile
\* data.
UpdateAnswered(w) ==
    /\ invocations[w].pc # "done"
    /\ invocations'[w].pc = "done"
    /\ invocations'[w].op = "update"
    /\ invocations'[w].response.status = 200
    /\ HasProfileData(invocations'[w].data)

\* The user of the update has a profile, it has the given fields, and the
\* profiles of the other users are as they were.
UpdateOutcome(w) ==
    LET call == invocations'[w]
        given == Val(call.data)
    IN  /\ HasProfile(profiles', call.user)
        /\ \A k \in DOMAIN given :
              given[k] # None =>
                 Val(ProfileIn(profiles', call.user))[k] = Val(given[k])
        /\ \A u \in Users \ {call.user} :
              ProfileIn(profiles', u) = ProfileIn(profiles, u)

\* A row is added to the table only for a user who has none.
InsertedForNewUser ==
    Len(profiles') > Len(profiles) =>
        /\ Len(profiles') = Len(profiles) + 1
        /\ ~HasProfile(profiles, profiles'[Len(profiles')].user)
        /\ \A i \in 1..Len(profiles) : profiles'[i].user = profiles[i].user

\* C24: a profile update with profile data leaves the user with a profile
\* that has the given fields, created when the user had none and updated
\* otherwise; and whatever profile updates, update_user_type and
\* user_stats calls have run, no user has more than one profile.
C24_ProfileUpdatedOrCreated ==
    /\ []AtMostOneProfile
    /\ [][/\ \A w \in Workers : UpdateAnswered(w) => UpdateOutcome(w)
          /\ InsertedForNewUser
          /\ Len(profiles') >= Len(profiles)]_vars

\* C24 witness: a profile update for a user without a profile created the
\* profile and made it a trained assessor's, while user_stats by the same
\* user, running alongside, found the profile when its own insert failed.
C24_Witness ==
    \E w1 \in Workers, w2 \in Workers :
        /\ invocations[w1].pc = "done"
        /\ invocations[w1].op = "update"
        /\ invocations[w1].created
        /\ invocations[w1].response.status = 200
        /\ invocations[w2].pc = "done"
        /\ invocations[w2].op = "user_stats"
        /\ invocations[w2].user = invocations[w1].user
        /\ ~invocations[w2].created
        /\ invocations[w2].response.status = 200
        /\ Cardinality(RowsOfUser(profiles, invocations[w1].user)) = 1
        /\ TrainedAssessor(Val(ProfileIn(profiles, invocations[w1].user)))

---------------------------------------------------------------------------
(* BusinessViewSet (apps/businesses/views.py): the REST endpoints on the   *)
(* Business table.  Requests are served one after the other by one worker. *)
(* Of a request body only the columns of the model's rows are kept, and    *)
(* the read-only fields owner and created_at a client may add to it.       *)

\* User.is_staff
StaffUsers == {"bob"}
IsStaff(user) == user \in StaffUsers

\* A permission that lets every request through.
HasPermissionAlways(method, user) == TRUE

\* IsAuthenticatedOrReadOnly
SafeMethods == {"GET", "HEAD", "OPTIONS"}
HasPermission(method, user) == method \in SafeMethods \/ IsAuthenticated(user)

\* A filter that is applied to every request with owner=me.
OwnerFilterWithoutLogin(owner, user) == owner = Some("me")

\* if owner == 'me' and self.request.user.is_authenticated
OwnerFilterActive(owner, user) == owner = Some("me") /\ IsAuthenticated(user)

OwnedBy(rows, user) ==
    LET IsOwner(b) == b.owner = Some(user) IN SelectSeq(rows, IsOwner)

\* get_queryset: Business.objects.all() in the model's ordering, filtered
\* by owner when owner=me comes from a logged-in user.
get_queryset(owner, user) ==
    IF OwnerFilterActive(owner, user)
    THEN OwnedBy(Reverse(businesses), user)
    ELSE Reverse(businesses)

BusinessTypeChoices ==
    {"cafe", "restaurant", "shop", "pub", "hotel", "office", "healthcare",
     "entertainment", "education", "transport", "other"}

\* ACCESSIBILITY_CHOICES: the ratings 1 to 5.
AccessibilityChoices == 1..5

\* A serializer whose accessibility_level field takes any integer.
LevelErrorsNever(data) == {}

\* The accessibility_level field of the serializer: a nullable choice
\* field that is not required; a value that is not one of the choices is
\* an error on the field.
LevelErrors(data) ==
    IF data.accessibility_level # None
       /\ Val(data.accessibility_level) \notin AccessibilityChoices
    THEN {"accessibility_level"}
    ELSE {}

\* serializer.errors, as the set of the fields in error: name and address
\* are required and not blank, business_type is one of the choices and
\* accessibility_level is null or one of the choices.
Errors(data) ==
    (IF data.name = None \/ data.name = Some(<<>>) THEN {"name"} ELSE {})
    \cup (IF data.address = None \/ data.address = Some(<<>>) THEN {"address"} ELSE {})
    \cup (IF data.business_type # None
              /\ Val(data.business_type) \notin BusinessTypeChoices
           THEN {"business_type"} ELSE {})
    \cup LevelErrors(data)

\* BusinessSerializer.is_valid
IsValid(data) == Errors(data) = {}

\* A serializer on which owner is writable.
SavedOwnerFromBody(data, owner) == IF data.owner # None THEN data.owner ELSE owner

\* owner is read-only on the serializer: the value in the body is dropped
\* and the row gets the owner that save() is given.
SavedOwner(data, owner) == owner

\* serializer.validated_data with the model's defaults for what the body
\* leaves out, and the owner to save.
SavedFields(data, owner) ==
    [name |-> Val(data.name),
     description |-> <<>>,
     address |-> Val(data.address),
     city |-> <<>>,
     business_type |-> IF data.business_type = None THEN "other"
                       ELSE Val(data.business_type),
     specialisation |-> <<>>,
     accessibility_level |-> data.accessibility_level,
     accessibility_features |-> <<>>,
     latitude |-> Some(515074),
     longitude |-> Some(-1278),
     owner |-> SavedOwner(data, owner)]

\* BusinessSerializer.update: the attributes in validated_data are set on
\* the instance; what the body leaves out keeps its value.
UpdatedRow(row, data) ==
    [row EXCEPT
       !.name = Val(data.name),
       !.address = Val(data.address),
       !.business_type = IF data.business_type = None THEN @
                         ELSE Val(data.business_type),
       !.accessibility_level = IF data.accessibility_level = None THEN @
                               ELSE data.accessibility_level,
       !.owner = SavedOwner(data, @)]

RowWithId(id) == CHOOSE b \in Rows : b.id = id
Stored(id) == \E b \in Rows : b.id = id
ReplaceRow(row) ==
    [i \in 1..Len(businesses) |->
        IF businesses[i].id = row.id THEN row ELSE businesses[i]]
WithoutRow(id) ==
    LET Other(b) == b.id # id IN SelectSeq(businesses, Other)

Answered(op, method, user, target, data, resp) ==
    [pc |-> "done", op |-> op, method |-> method, user |-> user,
     target |-> target, data |-> data, response |-> resp]

\* GET businesses/?owner=...
ApiList(w, user, owner) ==
    /\ invocations[w].pc = "idle"
    /\ invocations' = [invocations EXCEPT ![w] =
          Answered("list", "GET", user, owner, None,
             IF HasPermission("GET", user)
             THEN Response(200, get_queryset(owner, user))
             ELSE Unauthorized)]
    /\ UNCHANGED <<businesses, nextId, request, response>>
    /\ UNCHANGED accounts

\* GET businesses/<pk>/
ApiRetrieve(w, user, pk) ==
    /\ invocations[w].pc = "idle"
    /\ invocations' = [invocations EXCEPT ![w] =
          Answered("retrieve", "GET", user, pk, None,
             IF ~HasPermission("GET", user) THEN Unauthorized
             ELSE IF ~Stored(pk) THEN NotFound
             ELSE Response(200, RowWithId(pk)))]
    /\ UNCHANGED <<businesses, nextId, request, response>>
    /\ UNCHANGED accounts

\* POST businesses/ with the body data: permission, validation, and
\* perform_create's serializer.save(owner=self.request.user).
ApiCreate(w, user, data) ==
    /\ invocations[w].pc = "idle"
    /\ IF HasPermission("POST", user) /\ IsValid(data)
       THEN /\ nextId <= MaxBusinesses + 1
            /\ businesses' = Append(businesses,
                                BusinessRow(nextId, SavedFields(data, Some(user))))
            /\ nextId' = nextId + 1
            /\ invocations' = [invocations EXCEPT ![w] =
                 Answered("create", "POST", user, nextId, data,
                    Response(201, BusinessRow(nextId, SavedFields(data, Some(user)))))]
       ELSE /\ invocations' = [invocations EXCEPT ![w] =
                 Answered("create", "POST", user, nextId, data,
                    IF ~HasPermission("POST", user) THEN Unauthorized
                    ELSE Response(400, Errors(data)))]
            /\ UNCHANGED <<businesses, nextId>>
    /\ UNCHANGED <<request, response>>
    /\ UNCHANGED accounts

\* A check that lets anyone change a business that has no owner.
MayChangeUnowned(user, row) ==
    row.owner = None \/ row.owner = Some(user) \/ IsStaff(user)

\* if business.owner != self.request.user and not is_staff: raise
\* PermissionError (a Python built-in, which the framework answers 500).
MayChange(user, row) == row.owner = Some(user) \/ IsStaff(user)

\* PUT businesses/<pk>/ with the body data: permission, get_object,
\* validation, perform_update.
ApiUpdate(w, user, pk, data) ==
    /\ invocations[w].pc = "idle"
    /\ IF HasPermission("PUT", user) /\ Stored(pk) /\ IsValid(data)
          /\ MayChange(user, RowWithId(pk))
       THEN /\ businesses' = ReplaceRow(UpdatedRow(RowWithId(pk), data))
            /\ invocations' = [invocations EXCEPT ![w] =
                 Answered("update", "PUT", user, pk, data,
                    Response(200, UpdatedRow(RowWithId(pk), data)))]
       ELSE /\ invocations' = [invocations EXCEPT ![w] =
                 Answered("update", "PUT", user, pk, data,
                    IF ~HasPermission("PUT", user) THEN Unauthorized
                    ELSE IF ~Stored(pk) THEN NotFound
                    ELSE IF ~IsValid(data) THEN Response(400, Errors(data))
                    ELSE InternalServerError)]
            /\ UNCHANGED businesses
    /\ UNCHANGED <<nextId, request, response>>
    /\ UNCHANGED accounts

\* DELETE businesses/<pk>/: permission, get_object, perform_destroy.  The
\* favourites of the business go with it (on_delete=CASCADE).
ApiDestroy(w, user, pk) ==
    /\ invocations[w].pc = "idle"
    /\ IF HasPermission("DELETE", user) /\ Stored(pk) /\ MayChange(user, RowWithId(pk))
       THEN /\ businesses' = WithoutRow(pk)
            /\ favorites' = { f \in favorites : f.business # pk }
            /\ invocations' = [invocations EXCEPT ![w] =
                 Answered("destroy", "DELETE", user, pk, None, Response(204, None))]
       ELSE /\ invocations' = [invocations EXCEPT ![w] =
                 Answered("destroy", "DELETE", user, pk, None,
                    IF ~HasPermission("DELETE", user) THEN Unauthorized
                    ELSE IF ~Stored(pk) THEN NotFound
                    ELSE InternalServerError)]
            /\ UNCHANGED <<businesses, favorites>>
    /\ UNCHANGED <<nextId, request, response, nextFavoriteId, profiles,
                 search_history>>

\* The table the API requests start from: one business that nobody owns,
\* saved outside the API.
InitApi ==
    /\ businesses = <<BusinessRow(1, CHOOSE f \in BusinessInputs : f.business_type = "pub")>>
    /\ nextId = 2
    /\ request = None
    /\ response = None
    /\ invocations = [w \in Workers |-> Idle]
    /\ favorites = {}
    /\ nextFavoriteId = 1
    /\ profiles = <<>>
    /\ search_history = <<>>

\* Request bodies: a complete one, one that also names an owner and a
\* creation time and leaves the rating out, one without a name, and two
\* with a rating outside the choices.
RequestBody(name, business_type, accessibility_level, owner, created_at) ==
    [name |-> name, address |-> Some(<<"a">>), business_type |-> business_type,
     accessibility_level |-> accessibility_level, owner |-> owner,
     created_at |-> created_at]
ApiBodies ==
    { RequestBody(Some(<<"N", "e", "w">>), Some("shop"), Some(3), None, None),
      RequestBody(Some(<<"M", "y">>), None, None, Some("bob"), Some(0)),
      RequestBody(None, Some("shop"), Some(3), Some("ann"), None),
      RequestBody(Some(<<"N", "e", "w">>), Some("shop"), Some(6), None, None),
      RequestBody(Some(<<"M", "y">>), None, Some(0), None, None) }

OwnerRaw == {None, Some("me"), Some("Me"), Some(""), Some("ann")}

NextApi ==
    \/ \E user \in Users \cup {AnonymousUser}, owner \in OwnerRaw : ApiList(1, user, owner)
    \/ \E user \in Users \cup {AnonymousUser}, pk \in UrlIds : ApiRetrieve(1, user, pk)
    \/ \E user \in Users \cup {AnonymousUser}, data \in ApiBodies : ApiCreate(1, user, data)
    \/ \E user \in Users \cup {AnonymousUser}, pk \in UrlIds, data \in ApiBodies :
          ApiUpdate(1, user, pk, data)
    \/ \E user \in Users \cup {AnonymousUser}, pk \in UrlIds : ApiDestroy(1, user, pk)
    \/ Release(1)

SpecApi == InitApi /\ [][NextApi]_vars

\* The request the worker has answered.
Call == invocations[1]
AnsweredApi == Call.pc = "done"

\* C18: a request without credentials can list and retrieve the businesses:
\* it is answered 200 with every stored business, or with the business it
\* asks for; it cannot change them: a create (and an update or delete)
\* without credentials is answered 401 and the table stays as it was.
C18_ReadOnlyWithoutLogin ==
    /\ [](AnsweredApi /\ Call.user = AnonymousUser =>
            /\ Call.op = "list" =>
                  /\ Call.response.status = 200
                  /\ Ids(Call.response.data) = {b.id : b \in Rows}
            /\ (Call.op = "retrieve" /\ \E b \in Rows : b.id = Call.target) =>
                  /\ Call.response.status = 200
                  /\ Call.response.data \in Rows
                  /\ Call.response.data.id = Call.target
            /\ Call.op \in {"create", "update", "destroy"} =>
                  Call.response.status = 401)
    /\ [][(invocations'[1].pc = "done" /\ invocations'[1].user = AnonymousUser)
            => businesses' = businesses]_vars

\* C18 witness: a create without credentials, with a valid body, was
\* answered 401 while two businesses are stored.
C18_Witness ==
    /\ AnsweredApi
    /\ Call.user = AnonymousUser
    /\ Call.op = "create"
    /\ Call.data.name # None
    /\ Call.response.status = 401
    /\ Len(businesses) = 2

\* The ids stored before and after a step.
IdsBefore == {businesses[i].id : i \in 1..Len(businesses)}
IdsAfter == {businesses'[i].id : i \in 1..Len(businesses')}
IndexBefore(id) == (CHOOSE i \in 1..Len(businesses) : businesses[i].id = id)
IndexAfter(id) == (CHOOSE i \in 1..Len(businesses') : businesses'[i].id = id)

\* C19: a business created through the API is owned by the authenticated
\* user of the request, whatever owner and created_at the body names (the
\* new row is the newest one); and no request changes the owner of a
\* stored business.
C19_OwnerIsRequestUser ==
    [][/\ \A id \in IdsAfter \ IdsBefore :
             /\ invocations'[1].op = "create"
             /\ invocations'[1].user \in Users
             /\ businesses'[IndexAfter(id)].owner = Some(invocations'[1].user)
             /\ IndexAfter(id) = Len(businesses')
       /\ \A id \in IdsAfter \cap IdsBefore :
             businesses'[IndexAfter(id)].owner = businesses[IndexBefore(id)].owner]_vars

\* C19 witness: ann created a business; then bob, who is staff, updated it
\* with a body that names bob as the owner; the business is still ann's.
C19_Witness ==
    /\ AnsweredApi
    /\ Call.op = "update"
    /\ Call.user = "bob"
    /\ Call.data.owner = Some("bob")
    /\ Call.response.status = 200
    /\ Call.response.data.owner = Some("ann")
    /\ \E b \in Rows : b.id = Call.target /\ b.owner = Some("ann")

\* C20: a list with owner=me by an authenticated user returns exactly the
\* businesses that user owns; with owner=me and no credentials, or with any
\* other value of owner, it returns every business.
C20_OwnerMe ==
    (AnsweredApi /\ Call.op = "list") =>
        /\ Call.response.status = 200
        /\ IF Call.target = Some("me") /\ Call.user \in Users
           THEN Ids(Call.response.data) =
                    {b.id : b \in {r \in Rows : r.owner = Some(Call.user)}}
           ELSE Ids(Call.response.data) = {b.id : b \in Rows}
        /\ \A i \in 1..Len(Call.response.data) : Call.response.data[i] \in Rows

\* C20 witness: owner=me by ann returned the one business she owns out of
\* the two that are stored.
C20_Witness ==
    /\ AnsweredApi
    /\ Call.op = "list"
    /\ Call.target = Some("me")
    /\ Call.user = "ann"
    /\ Len(businesses) = 2
    /\ Len(Call.response.data) = 1

\* The rating a stored business may have.
LevelStored(b) ==
    b.accessibility_level = None
    \/ Val(b.accessibility_level) \in AccessibilityChoices

\* C21: a create or update whose body has an accessibility_level outside
\* 1..5 is answered 400 with an error on accessibility_level and stores
\* nothing; a body with a rating in 1..5 or without one has no error on
\* that field; and every stored business has a rating in 1..5 or none.
C21_AccessibilityLevelValidated ==
    /\ [](\A b \in Rows : LevelStored(b))
    /\ [](AnsweredApi /\ Call.op \in {"create", "update"}
            /\ Call.response.status \in {200, 201, 400} =>
              IF LevelStored(Call.data)
              THEN Call.response.status = 400 =>
                      "accessibility_level" \notin Call.response.data
              ELSE /\ Call.response.status = 400
                   /\ "accessibility_level" \in Call.response.data)
    /\ [][(invocations'[1].pc = "done"
             /\ invocations'[1].op \in {"create", "update"}
             /\ ~LevelStored(invocations'[1].data))
            => businesses' = businesses]_vars

\* C21 witness: ann's business was updated with the rating 6; the answer
\* is 400 with the error on accessibility_level only, and the business
\* still has the rating 3 it was created with.
C21_Witness ==
    /\ AnsweredApi
    /\ Call.op = "update"
    /\ Call.user = "ann"
    /\ Call.data.accessibility_level = Some(6)
    /\ Call.response = Response(400, {"accessibility_level"})
    /\ \E b \in Rows : /\ b.id = Call.target
                       /\ b.owner = Some("ann")
                       /\ b.accessibility_level = Some(3)

---------------------------------------------------------------------------
(* business_search_html (apps/businesses/views.py): the businesses handed  *)
(* to the template business_cards.html, in their order.                    *)

\* A filter on the four columns that the map endpoint searches.
SearchHtmlMatchesFourColumns(b, term) == SearchMatches(b, term)

\* Q(name__icontains) | Q(description__icontains) | Q(address__icontains)
\* | Q(city__icontains) | Q(accessibility_features__icontains)
\* | Q(specialisation__icontains)
SearchHtmlMatches(b, term) ==
    \/ IContains(b.name, term)
    \/ IContains(b.description, term)
    \/ IContains(b.address, term)
    \/ IContains(b.city, term)
    \/ IContains(b.accessibility_features, term)
    \/ IContains(b.specialisation, term)

\* if search_query: businesses = businesses.filter(...)
SearchHtmlFilter(qs, search_query) ==
    IF search_query # <<>>
    THEN SelectSeq(qs, LAMBDA b : SearchHtmlMatches(b, search_query))
    ELSE qs

\* The characters of the model's names in the order of their code points.
CodePoints ==
    <<" ", "A", "B", "C", "F", "I", "N", "O", "P", "T", "Y", "Z",
      "a", "b", "c", "e", "f", "i", "m", "n", "o", "p", "r", "t", "w", "y", "z">>
Ord(c) == CHOOSE i \in 1..Len(CodePoints) : CodePoints[i] = c

\* a < b on strings.
RECURSIVE StrLess(_, _)
StrLess(a, b) ==
    IF b = <<>> THEN FALSE
    ELSE IF a = <<>> THEN TRUE
    ELSE IF Head(a) = Head(b) THEN StrLess(Tail(a), Tail(b))
    ELSE Ord(Head(a)) < Ord(Head(b))

\* ORDER BY accessibility_level DESC: a sorts strictly before b.  Where
\* NULL goes is the database's choice: PostgreSQL puts it first in a
\* descending order, SQLite last.
LevelBefore(a, b, nulls_first) ==
    IF a.accessibility_level = None
    THEN b.accessibility_level # None /\ nulls_first
    ELSE IF b.accessibility_level = None
    THEN ~nulls_first
    ELSE Val(a.accessibility_level) > Val(b.accessibility_level)

\* ORDER BY accessibility_level DESC, name ASC
SortsBefore(a, b, nulls_first) ==
    \/ LevelBefore(a, b, nulls_first)
    \/ /\ a.accessibility_level = b.accessibility_level
       /\ StrLess(a.name, b.name)

\* The orders in which the database may return the rows of qs under
\* order_by('-accessibility_level', 'name'): rows that tie come in any
\* order.
order_by(qs, nulls_first) ==
    { list \in { [i \in 1..Len(qs) |-> qs[p[i]]] : p \in Permutations(1..Len(qs)) } :
        \A i \in 1..Len(list), j \in 1..Len(list) :
            i < j => ~SortsBefore(list[j], list[i], nulls_first) }

\* GET /api/v1/search/?search=...: the context the template is rendered
\* with.
business_search_html(w, search, nulls_first) ==
    /\ invocations[w].pc = "idle"
    /\ \E list \in order_by(SearchHtmlFilter(businesses, SearchTerm(search)), nulls_first) :
          invocations' = [invocations EXCEPT ![w] =
             [pc |-> "done", op |-> "search_html", search |-> search,
              nulls_first |-> nulls_first,
              response |-> Response(200, [businesses |-> list,
                                          search_query |-> SearchTerm(search)])]]
    /\ UNCHANGED <<businesses, nextId, request, response>>
    /\ UNCHANGED accounts

\* The businesses saved before a search: those of the map endpoint and a
\* shop with the cafe's rating whose name sorts before the cafe's.
SearchInputs ==
    BusinessInputs \cup
    { [name |-> <<"A", "n">>, description |-> <<>>,
       address |-> <<"a">>, city |-> <<>>,
       business_type |-> "shop", accessibility_level |-> Some(4),
       specialisation |-> <<>>, accessibility_features |-> <<>>,
       latitude |-> Degrees(10), longitude |-> Degrees(20),
       owner |-> None] }

\* The values of the search parameter; None for a request without it.
SearchHtmlRaw ==
    {None, Some(<<>>), Some(<<" ">>), Some(<<"c", "o">>),
     Some(<<" ", "O", "F", " ">>), Some(<<"r", "a">>), Some(<<"I", "T">>),
     Some(<<"q">>)}

\* Business.objects.create(**f) between two searches.
CreateBetweenSearches(f) ==
    /\ invocations[1].pc = "idle"
    /\ CreateBusiness(f)

NextSearch ==
    \/ \E f \in SearchInputs : CreateBetweenSearches(f)
    \/ \E search \in SearchHtmlRaw, nulls_first \in BOOLEAN :
          business_search_html(1, search, nulls_first)
    \/ Release(1)

SpecSearch == Init /\ [][NextSearch]_vars

\* The search the worker has answered, and what it rendered.
SearchAnswered == invocations[1].pc = "done" /\ invocations[1].op = "search_html"
Rendered == invocations[1].response.data.businesses
TrimmedTerm ==
    IF invocations[1].search = None THEN <<>> ELSE Strip(Val(invocations[1].search))

\* The term occurs in one of the six columns, letter case ignored.
OccursInCard(term, b) ==
    \/ OccursInRow(term, b)
    \/ Occurs(term, b.accessibility_features)
    \/ Occurs(term, b.specialisation)

\* The first of two names in the order of the dictionary.
NameNotAfter(a, b) ==
    \/ \E k \in 1..Len(a) :
          /\ k <= Len(b)
          /\ SubSeq(a, 1, k - 1) = SubSeq(b, 1, k - 1)
          /\ Ord(a[k]) < Ord(b[k])
    \/ /\ Len(a) <= Len(b)
       /\ a = SubSeq(b, 1, Len(a))

Rated(list) == SelectSeq(list, LAMBDA b : b.accessibility_level # None)

\* C23: with a non-empty trimmed term business_search_html renders exactly
\* the stored businesses in which the term occurs, letter case ignored, in
\* name, description, address, city, accessibility_features or
\* specialisation, each once; with an empty term it renders every stored
\* business.  Of two rendered businesses the one with the higher rating
\* comes first, and of two with the same rating (or both without) the one
\* whose name sorts first; the businesses without a rating stand together
\* at one end.
C23_SearchHtml ==
    SearchAnswered =>
        /\ Len(Rendered) = Cardinality(Ids(Rendered))
        /\ \A i \in 1..Len(Rendered) : Rendered[i] \in Rows
        /\ Ids(Rendered) =
              IF TrimmedTerm = <<>>
              THEN {b.id : b \in Rows}
              ELSE {b.id : b \in {r \in Rows : OccursInCard(TrimmedTerm, r)}}
        /\ \A i \in 1..Len(Rendered), j \in 1..Len(Rendered) :
              i < j =>
                 LET a == Rendered[i]
                     b == Rendered[j]
                 IN  /\ (a.accessibility_level # None /\ b.accessibility_level # None)
                           => Val(a.accessibility_level) >= Val(b.accessibility_level)
                     /\ a.accessibility_level = b.accessibility_level
                           => NameNotAfter(a.name, b.name)
        /\ \/ Rated(Rendered) = SubSeq(Rendered, 1, Len(Rated(Rendered)))
           \/ Rated(Rendered) =
                 SubSeq(Rendered, Len(Rendered) - Len(Rated(Rendered)) + 1, Len(Rendered))

\* C23 witness: the term IT, which occurs in the specialisation of the
\* cafe only, rendered the cafe and not the other stored business.
C23_Witness ==
    /\ SearchAnswered
    /\ invocations[1].search = Some(<<"I", "T">>)
    /\ Len(businesses) = 2
    /\ Len(Rendered) = 1
    /\ Rendered[1].specialisation = <<"I", "t">>

\* A second case of C23: two businesses with the same rating, the one
\* saved last first, are rendered in the order of their names.
C23_OrderWitness ==
    /\ SearchAnswered
    /\ TrimmedTerm = <<>>
    /\ Len(Rendered) = 2
    /\ Rendered[1].accessibility_level = Rendered[2].accessibility_level
    /\ Rendered[1].name # Rendered[2].name
    /\ Rendered[1].id > Rendered[2].id

---------------------------------------------------------------------------
(* BusinessViewSet: who may change a business. *)

\* The stored row with the id, before the step.
RowBefore(id) == businesses[IndexBefore(id)]

\* The request answered in this step is an update or delete by a logged-in
\* user who neither owns the stored business it names nor is staff.
ChangeByStranger ==
    /\ invocations[1].pc # "done"
    /\ invocations'[1].pc = "done"
    /\ invocations'[1].op \in {"update", "destroy"}
    /\ invocations'[1].user \in Users
    /\ invocations'[1].user \notin StaffUsers
    /\ invocations'[1].target \in IdsBefore
    /\ RowBefore(invocations'[1].target).owner # Some(invocations'[1].user)

\* C25: an update or delete of a stored business by an authenticated user
\* who is neither its owner nor staff, also when the business has no
\* owner, is answered with an error and leaves the table as it was; and a
\* stored business is changed or removed only by an update or delete of
\* its owner or of a staff user.
C25_OnlyOwnerOrStaffChanges ==
    [][/\ ChangeByStranger =>
             /\ invocations'[1].response.status >= 400
             /\ businesses' = businesses
       /\ \A id \in IdsBefore :
             (id \notin IdsAfter \/ businesses'[IndexAfter(id)] # RowBefore(id)) =>
                /\ invocations'[1].op \in {"update", "destroy"}
                /\ invocations'[1].target = id
                /\ \/ RowBefore(id).owner = Some(invocations'[1].user)
                   \/ invocations'[1].user \in StaffUsers]_vars

\* C25 witness: ann, who is not staff, asked to delete the business nobody
\* owns; the answer is an error and the business is still stored.
C25_Witness ==
    /\ AnsweredApi
    /\ Call.op = "destroy"
    /\ Call.user = "ann"
    /\ Call.response.status = 500
    /\ \E b \in Rows : b.id = Call.target /\ b.owner = None

---------------------------------------------------------------------------
(* health_check (apps/core/views.py).  What the database and the cache do  *)
(* is the environment's choice: a call returns or raises, and cache.get    *)
(* returns the value that was set or another one.                          *)

\* What a call to the database or to the cache does.
Returns == "returns"
Raises == "raises"
CallOutcomes == {Returns, Raises}

\* What cache.get('health_check') does: it returns the value set, it
\* returns None, or it raises.
ReturnsTest == "returns 'test'"
ReturnsNone == "returns None"
CacheGetOutcomes == {ReturnsTest, ReturnsNone, Raises}

\* The value of a check, as the parts of the string.
Healthy == <<"healthy">>
Unhealthy(message) == <<"unhealthy: ", message>>

\* health_status['checks'][key] = value
WithCheck(health_status, key, value) ==
    [health_status EXCEPT !.checks = (key :> value) @@ health_status.checks]

\* health_status['checks'][key] = value; health_status['status'] = 'unhealthy'
WithFailedCheck(health_status, key, value) ==
    [WithCheck(health_status, key, value) EXCEPT !.status = "unhealthy"]

\* A view that answers 200 whatever the checks say.
StatusCodeAlwaysOk(health_status) == 200

\* status_code = 200 if health_status['status'] == 'healthy' else 503
StatusCode(health_status) ==
    IF health_status.status = "healthy" THEN 200 ELSE 503

\* GET health/ arrives: health_status is initialised.
HealthStart(w) ==
    /\ invocations[w].pc = "idle"
    /\ invocations' = [invocations EXCEPT ![w] =
          [pc |-> "database", op |-> "health_check",
           health_status |-> [status |-> "healthy", checks |-> <<>>],
           database |-> None, cache_set |-> None, cache_get |-> None]]
    /\ UNCHANGED <<businesses, nextId, request, response>>
    /\ UNCHANGED accounts

\* The database check: cursor.execute("SELECT 1") returns or raises.
DatabaseCheck(w, outcome) ==
    /\ invocations[w].pc = "database"
    /\ invocations' = [invocations EXCEPT
          ![w].pc = "cache_set",
          ![w].database = Some(outcome),
          ![w].health_status =
              IF outcome = Returns
              THEN WithCheck(@, "database", Healthy)
              ELSE WithFailedCheck(@, "database", Unhealthy("error"))]
    /\ UNCHANGED <<businesses, nextId, request, response>>
    /\ UNCHANGED accounts

\* cache.set('health_check', 'test', 30) returns or raises.
CacheSet(w, outcome) ==
    /\ invocations[w].pc = "cache_set"
    /\ invocations' = [invocations EXCEPT
          ![w].pc = IF outcome = Returns THEN "cache_get" ELSE "respond",
          ![w].cache_set = Some(outcome),
          ![w].health_status =
              IF outcome = Returns THEN @
              ELSE WithFailedCheck(@, "cache", Unhealthy("error"))]
    /\ UNCHANGED <<businesses, nextId, request, response>>
    /\ UNCHANGED accounts

\* if cache.get('health_check') == 'test'
CacheGet(w, outcome) ==
    /\ invocations[w].pc = "cache_get"
    /\ invocations' = [invocations EXCEPT
          ![w].pc = "respond",
          ![w].cache_get = Some(outcome),
          ![w].health_status =
              IF outcome = Raises
              THEN WithFailedCheck(@, "cache", Unhealthy("error"))
              ELSE IF outcome = ReturnsTest
              THEN WithCheck(@, "cache", Healthy)
              ELSE WithFailedCheck(@, "cache", Unhealthy("cache not working"))]
    /\ UNCHANGED <<businesses, nextId, request, response>>
    /\ UNCHANGED accounts

\* return JsonResponse(health_status, status=status_code)
HealthRespond(w) ==
    /\ invocations[w].pc = "respond"
    /\ invocations' = [invocations EXCEPT ![w] =
          [pc |-> "done", op |-> "health_check",
           database |-> invocations[w].database,
           cache_set |-> invocations[w].cache_set,
           cache_get |-> invocations[w].cache_get,
           response |-> Response(StatusCode(invocations[w].health_status),
                                 invocations[w].health_status)]]
    /\ UNCHANGED <<businesses, nextId, request, response>>
    /\ UNCHANGED accounts

\* Two workers serve the requests.
HealthWorkers == {1, 2}

NextHealth ==
    \/ \E w \in HealthWorkers : HealthStart(w)
    \/ \E w \in HealthWorkers, outcome \in CallOutcomes : DatabaseCheck(w, outcome)
    \/ \E w \in HealthWorkers, outcome \in CallOutcomes : CacheSet(w, outcome)
    \/ \E w \in HealthWorkers, outcome \in CacheGetOutcomes : CacheGet(w, outcome)
    \/ \E w \in HealthWorkers : HealthRespond(w)
    \/ \E w \in HealthWorkers : Release(w)

SpecHealth == Init /\ [][NextHealth]_vars

\* What happened while w's request was served.
DatabaseSucceeded(w) == invocations[w].database = Some(Returns)
CacheSucceeded(w) ==
    /\ invocations[w].cache_set = Some(Returns)
    /\ invocations[w].cache_get = Some(ReturnsTest)
IsUnhealthy(value) == value # Healthy /\ value[1] = "unhealthy: "

\* C26: health_check answers 200 with status healthy exactly when the
\* database check and the cache check both succeed; otherwise it answers
\* 503 with status unhealthy.  Both checks are reported in every answer,
\* each as healthy when it succeeded and as unhealthy when it failed or
\* raised, and the cache check is run whatever the database check did.
C26_HealthCheck ==
    \A w \in HealthWorkers :
        (invocations[w].pc = "done" /\ invocations[w].op = "health_check") =>
            LET answer == invocations[w].response
            IN  /\ IF DatabaseSucceeded(w) /\ CacheSucceeded(w)
                   THEN answer.status = 200 /\ answer.data.status = "healthy"
                   ELSE answer.status = 503 /\ answer.data.status = "unhealthy"
                /\ DOMAIN answer.data.checks = {"database", "cache"}
                /\ IF DatabaseSucceeded(w)
                   THEN answer.data.checks["database"] = Healthy
                   ELSE IsUnhealthy(answer.data.checks["database"])
                /\ IF CacheSucceeded(w)
                   THEN answer.data.checks["cache"] = Healthy
                   ELSE IsUnhealthy(answer.data.checks["cache"])
                /\ invocations[w].cache_set # None

\* C26 witness: the database check raised and the cache check, run after
\* it, succeeded: 503, database unhealthy and cache healthy; another
\* request was answered 200.
C26_Witness ==
    \E w1 \in HealthWorkers, w2 \in HealthWorkers :
        /\ invocations[w1].pc = "done"
        /\ invocations[w1].op = "health_check"
        /\ invocations[w1].database = Some(Raises)
        /\ CacheSucceeded(w1)
        /\ invocations[w1].response.status = 503
        /\ invocations[w1].response.data.checks["cache"] = Healthy
        /\ invocations[w2].pc = "done"
        /\ invocations[w2].op = "health_check"
        /\ invocations[w2].response.status = 200

---------------------------------------------------------------------------
(* toggle_favorite for a business that is not stored. *)

\* C28: a toggle by an authenticated user for a business id that is not
\* stored is answered 400 with the error "Unable to toggle favorite", and
\* the favourites are those that were stored when the request arrived.
C28_ToggleUnknownBusiness ==
    (/\ invocations[1].pc = "done"
     /\ invocations[1].op = "toggle"
     /\ IsAuthenticated(invocations[1].user)
     /\ \A b \in Rows : b.id # invocations[1].business)
    => /\ invocations[1].response.status = 400
       /\ invocations[1].response.data = [error |-> "Unable to toggle favorite"]
       /\ favorites = invocations[1].before

\* C28 witness: ann, who has a favourite, toggled the business id 3, which
\* is not stored; the answer is 400 and her favourite is still there.
C28_Witness ==
    /\ invocations[1].pc = "done"
    /\ invocations[1].op = "toggle"
    /\ invocations[1].user = "ann"
    /\ invocations[1].business = 3
    /\ Rows # {}
    /\ \A b \in Rows : b.id # 3
    /\ invocations[1].response.status = 400
    /\ \E f \in favorites : f.user = "ann"

---------------------------------------------------------------------------
(* The favourites views, one request after the other: what a user sees and *)
(* may remove.                                                             *)

\* Meta.ordering = ["-created_at"]: the rows of a queryset, newest first.
RECURSIVE NewestFirst(_)
NewestFirst(rows) ==
    IF rows = {} THEN <<>>
    ELSE LET newest == CHOOSE f \in rows : \A g \in rows : g.id <= f.id
         IN  <<newest>> \o NewestFirst(rows \ {newest})

\* UserFavoriteSerializer: user is not among the fields.
FavoriteData(f) == [id |-> f.id, business |-> f.business]

\* GET favorites/
FavoriteList(w, user) ==
    /\ invocations[w].pc = "idle"
    /\ invocations' = [invocations EXCEPT ![w] =
          Finished("list", user, None, favorites, None,
             IF ~IsAuthenticated(user) THEN Unauthorized
             ELSE LET list == NewestFirst(FavoritesQueryset(user))
                  IN  Response(200, [i \in 1..Len(list) |-> FavoriteData(list[i])]))]
    /\ UNCHANGED <<businesses, nextId, request, response>>
    /\ UNCHANGED accounts

NextFavoriteViews ==
    \/ \E user \in Users \cup {AnonymousUser} : FavoriteList(1, user)
    \/ \E user \in Users \cup {AnonymousUser}, id \in UrlIds : FavoriteCreate(1, user, id)
    \/ \E user \in Users \cup {AnonymousUser}, pk \in 1..MaxFavoriteId :
          DestroyGet(1, user, pk)
    \/ DestroyDelete(1)
    \/ Release(1)

SpecFavoriteViews == InitAccounts /\ [][NextFavoriteViews]_vars

\* The stored favourite with the id.
FavoriteWithId(table, id) == CHOOSE f \in table : f.id = id

\* C27: a list by a user returns the favourites of that user and no other;
\* a favourite created through the views belongs to the user of the
\* request; a delete addressed to the favourite of another user is
\* answered 404 and removes nothing; and a favourite is removed only by a
\* request of its own user.
C27_FavoritesOfRequestUser ==
    /\ []((invocations[1].pc = "done" /\ invocations[1].op = "list"
             /\ invocations[1].user \in Users) =>
            /\ invocations[1].response.status = 200
            /\ {r.id : r \in {invocations[1].response.data[i] :
                                 i \in 1..Len(invocations[1].response.data)}}
                 = {f.id : f \in {g \in favorites : g.user = invocations[1].user}})
    /\ [][/\ \A f \in favorites' \ favorites :
                /\ invocations'[1].op = "create"
                /\ f.user = invocations'[1].user
                /\ invocations'[1].response = Response(201, [id |-> f.id, business |-> f.business])
          /\ \A f \in favorites \ favorites' :
                /\ invocations'[1].op = "destroy"
                /\ f.user = invocations'[1].user
          /\ (/\ invocations[1].pc = "idle"
              /\ invocations'[1].pc # "idle"
              /\ invocations'[1].op = "destroy"
              /\ invocations'[1].user \in Users
              /\ \E f \in favorites : /\ f.id = invocations'[1].business
                                      /\ f.user # invocations'[1].user)
             => /\ invocations'[1].pc = "done"
                /\ invocations'[1].response.status = 404
                /\ favorites' = favorites]_vars

\* C27 witness: bob asked to delete the favourite of ann; the answer is 404
\* and the favourite is stored, while bob has a favourite of his own.
C27_Witness ==
    /\ invocations[1].pc = "done"
    /\ invocations[1].op = "destroy"
    /\ invocations[1].user = "bob"
    /\ invocations[1].response.status = 404
    /\ \E f \in favorites : f.id = invocations[1].business /\ f.user = "ann"
    /\ \E f \in favorites : f.user = "bob"

---------------------------------------------------------------------------
(* UserSearchHistoryView (apps/accounts/views.py), one request after the   *)
(* other.  Of an entry the user and the search_query are kept; its id is   *)
(* its place in the table.                                                 *)

\* [:20]
HistoryLimit == 20

\* A queryset that is not sliced.
SlicedNowhere(qs) == qs

\* UserSearchHistory.objects.filter(user=...)[:20] on the ordered rows.
Sliced(qs) ==
    SubSeq(qs, 1, IF Len(qs) < HistoryLimit THEN Len(qs) ELSE HistoryLimit)

\* get_queryset: the entries of the user in Meta.ordering, newest first,
\* sliced.
HistoryQueryset(user) ==
    Sliced(Reverse(SelectSeq(search_history, LAMBDA e : e.user = user)))

\* UserSearchHistorySerializer: user is not among the fields.
HistoryData(e) == [id |-> e.id, search_query |-> e.search_query]

\* GET search-history/
HistoryList(w, user) ==
    /\ invocations[w].pc = "idle"
    /\ invocations' = [invocations EXCEPT ![w] =
          [pc |-> "done", op |-> "list", user |-> user, search_query |-> None,
           response |->
             IF ~IsAuthenticated(user) THEN Unauthorized
             ELSE LET list == HistoryQueryset(user)
                  IN  Response(200, [i \in 1..Len(list) |-> HistoryData(list[i])])]]
    /\ UNCHANGED <<businesses, nextId, request, response>>
    /\ UNCHANGED <<favorites, nextFavoriteId, profiles, search_history>>

\* The tables hold at most this many entries, of which at most
\* MaxOtherSearches are not ann's.
MaxSearches == 22
MaxOtherSearches == 1
EntriesOfOthers == SelectSeq(search_history, LAMBDA e : e.user # "ann")

\* POST search-history/ with search_query in the body (None when the body
\* has none): search_query is required and not blank; perform_create saves
\* the entry with user=self.request.user.
HistoryCreate(w, user, search_query) ==
    /\ invocations[w].pc = "idle"
    /\ IF IsAuthenticated(user) /\ search_query # None /\ search_query # Some(<<>>)
       THEN /\ Len(search_history) < MaxSearches
            /\ user # "ann" => Len(EntriesOfOthers) < MaxOtherSearches
            /\ search_history' = Append(search_history,
                  [id |-> Len(search_history) + 1, user |-> user,
                   search_query |-> Val(search_query)])
            /\ invocations' = [invocations EXCEPT ![w] =
                  [pc |-> "done", op |-> "create", user |-> user,
                   search_query |-> search_query,
                   response |-> Response(201,
                      [id |-> Len(search_history) + 1,
                       search_query |-> Val(search_query)])]]
       ELSE /\ invocations' = [invocations EXCEPT ![w] =
                  [pc |-> "done", op |-> "create", user |-> user,
                   search_query |-> search_query,
                   response |-> IF ~IsAuthenticated(user) THEN Unauthorized
                                ELSE Response(400, {"search_query"})]]
            /\ UNCHANGED search_history
    /\ UNCHANGED <<businesses, nextId, request, response>>
    /\ UNCHANGED <<favorites, nextFavoriteId, profiles>>

NextHistory ==
    \/ \E user \in Users \cup {AnonymousUser} : HistoryList(1, user)
    \/ \E user \in Users \cup {AnonymousUser}, search_query \in {None, Some(<<"c">>)} :
          HistoryCreate(1, user, search_query)
    \/ Release(1)

SpecHistory == InitAccounts /\ [][NextHistory]_vars

\* The ids of the entries a user has, and of those a list has returned.
OwnIds(user) == {search_history[i].id :
                    i \in {j \in 1..Len(search_history) : search_history[j].user = user}}
Listed == invocations[1].response.data
ListedIds == {Listed[i].id : i \in 1..Len(Listed)}

\* C29: a list of the search history by a user returns entries of that
\* user only, each once, newest first, and at most 20: all of them when the
\* user has 20 or fewer, and otherwise the 20 most recent ones.  A created
\* entry is the requesting user's.
C29_SearchHistory ==
    /\ []((invocations[1].pc = "done" /\ invocations[1].op = "list"
             /\ invocations[1].user \in Users) =>
            /\ invocations[1].response.status = 200
            /\ ListedIds \subseteq OwnIds(invocations[1].user)
            /\ Len(Listed) <= 20
            /\ Len(Listed) = Cardinality(ListedIds)
            /\ Cardinality(OwnIds(invocations[1].user)) <= 20
                  => ListedIds = OwnIds(invocations[1].user)
            /\ Cardinality(OwnIds(invocations[1].user)) > 20 => Len(Listed) = 20
            /\ \A i \in 1..Len(Listed), j \in 1..Len(Listed) :
                  i < j => Listed[i].id > Listed[j].id
            /\ \A id \in OwnIds(invocations[1].user) \ ListedIds :
                  \A shown \in ListedIds : id < shown)
    /\ [][Len(search_history') > Len(search_history) =>
            /\ invocations'[1].op = "create"
            /\ invocations'[1].user \in Users
            /\ search_history' = Append(search_history, search_history'[Len(search_history')])
            /\ search_history'[Len(search_history')].user = invocations'[1].user]_vars

\* C29 witness: ann has 21 entries and bob one; ann's list has 20 entries,
\* and her oldest one is not among them.
C29_Witness ==
    /\ invocations[1].pc = "done"
    /\ invocations[1].op = "list"
    /\ invocations[1].user = "ann"
    /\ Cardinality(OwnIds("ann")) = 21
    /\ Cardinality(OwnIds("bob")) = 1
    /\ Len(Listed) = 20
    /\ \E id \in OwnIds("ann") \ ListedIds : \A shown \in ListedIds : id < shown

---------------------------------------------------------------------------
(* haversine_distance on its own, and the distance of an output record     *)
(* (apps/businesses/views.py, lines 15-32 and 100-114)                     *)

\* The coordinates a caller passes, in degrees: points on the equator, on
\* one meridian, at a pole and in the southern hemisphere, and the floats
\* that are no numbers.
Latitudes == {Fin(0), Fin(10 * FScale), Fin(11 * FScale), Fin(90 * FScale),
              Fin(-34 * FScale), NaN, Inf(1)}
Longitudes == {Fin(0), Fin(20 * FScale), Fin(90 * FScale), Fin(-120 * FScale)}

DistanceWorkers == {1}

\* haversine_distance(lat1, lon1, lat2, lon2) called and returning or raising.
HaversineCall(w, lat1, lon1, lat2, lon2) ==
    /\ request = None
    /\ invocations[w].pc = "idle"
    /\ invocations' = [invocations EXCEPT ![w] =
          [pc |-> "done", op |-> "haversine_distance",
           args |-> <<lat1, lon1, lat2, lon2>>,
           result |-> haversine_distance(lat1, lon1, lat2, lon2)]]
    /\ UNCHANGED <<businesses, nextId, request, response>>
    /\ UNCHANGED accounts

\* The map requests that carry a centre and a radius.
DistanceRequests ==
    {g \in GeoRequests : g.min_rating = None /\ DistanceRequested(g)}

\* The process takes a map request when it is not inside another call.
ReceiveDistance(g) == (\A w \in DistanceWorkers : invocations[w].pc = "idle") /\ Receive(g)

NextDistance ==
    \/ \E f \in BusinessInputs : CreateBusiness(f)
    \/ \E w \in DistanceWorkers, lat1 \in Latitudes, lon1 \in Longitudes,
          lat2 \in Latitudes, lon2 \in Longitudes :
            HaversineCall(w, lat1, lon1, lat2, lon2)
    \/ \E w \in DistanceWorkers : Release(w)
    \/ \E g \in DistanceRequests : ReceiveDistance(g)
    \/ Handle
    \/ Send

SpecDistance == Init /\ [][NextDistance]_vars

\* The arc between two angles in radians, in 1/FScale miles, and the error
\* the fixed-point sine and arcsine leave on an arc of up to a quarter turn.
ArcMiles(r1, r2) == Abs(r1.v - r2.v) * EarthRadiusMiles
ArcTolerance == 3 * FScale

FiniteDegrees(lat1, lon1, lat2, lon2) ==
    IsFin(lat1) /\ IsFin(lon1) /\ IsFin(lat2) /\ IsFin(lon2)

\* Two points whose great circle is known: on one meridian between the
\* poles, or both on the equator, at most a quarter turn apart.  along is
\* the arc in radians between them.
OnGreatCircle(lat1, lon1, lat2, lon2) ==
    /\ FiniteDegrees(lat1, lon1, lat2, lon2)
    /\ \/ lon1 = lon2 /\ Abs(lat1.v) <= 90 * FScale /\ Abs(lat2.v) <= 90 * FScale
       \/ lat1.v = 0 /\ lat2.v = 0
    /\ Abs(lat1.v - lat2.v) + Abs(lon1.v - lon2.v) <= 90 * FScale

KnownArc(lat1, lon1, lat2, lon2) ==
    IF lon1 = lon2
    THEN ArcMiles(Radians(lat1), Radians(lat2))
    ELSE ArcMiles(Radians(lon1), Radians(lon2))

\* What the claim says of the distance d of (lat1, lon1) and (lat2, lon2).
GreatCircleMiles(lat1, lon1, lat2, lon2, d) ==
    /\ d = haversine_distance(lat2, lon2, lat1, lon1)
    /\ d.ok /\ IsFin(d.f) => d.f.v >= 0
    /\ FiniteDegrees(lat1, lon1, lat2, lon2) /\ lat1 = lat2 /\ lon1 = lon2
         => d = Ok(Fin(0))
    /\ OnGreatCircle(lat1, lon1, lat2, lon2)
         => /\ d.ok /\ IsFin(d.f)
            /\ Abs(d.f.v - KnownArc(lat1, lon1, lat2, lon2)) <= ArcTolerance

HaversineCalled(w) ==
    invocations[w].pc = "done" /\ invocations[w].op = "haversine_distance"


\* C30: haversine_distance gives the great-circle distance in miles on a
\* sphere of radius 3956: for two points on one meridian or on the equator
\* it is the arc between them times 3956; it is the same for the two points
\* exchanged, it is not negative, and it is zero for a point and itself;
\* the distance of an output record is this value rounded to two decimals.
\* For coordinates that are not numbers the function raises or gives nan.
C30_HaversineDistance ==
    /\ \A w \in DistanceWorkers :
         HaversineCalled(w) =>
            GreatCircleMiles(invocations[w].args[1], invocations[w].args[2],
                             invocations[w].args[3], invocations[w].args[4],
                             invocations[w].result)
    /\ Responded /\ Status = 200 =>
         \A i \in 1..Len(Body) :
            HasDistance(Body[i]) =>
               /\ AllParse
               /\ MarkerDistance(Body[i]).ok
               /\ Body[i].distance = Round2(MarkerDistance(Body[i]).f)
               /\ GreatCircleMiles(Center[1], Center[2], Body[i].latitude,
                                   Body[i].longitude, MarkerDistance(Body[i]))

\* The map is answered with a record at the centre, whose distance is zero,
\* and with a record a degree north of it, whose distance is the rounded
\* value and differs from the value itself.
C30_Witness ==
    /\ Responded
    /\ Status = 200
    /\ \E i, j \in 1..Len(Body) :
         /\ HasDistance(Body[i])
         /\ HasDistance(Body[j])
         /\ Body[i].latitude = Center[1]
         /\ Body[i].longitude = Center[2]
         /\ Body[i].distance = Fin(0)
         /\ Body[j].distance.v > 0
         /\ Body[j].distance # MarkerDistance(Body[j]).f
         /\ Body[j].distance = Round2(MarkerDistance(Body[j]).f)

=============================================================================
